---- MODULE Spec2Model ----
(***************************************************************************)
(* The example programs of libfmod-demos as state machines over an         *)
(* abstract FMOD Studio engine.  Every engine call may succeed or fail;    *)
(* a failed call has no effect on the engine.  The scripted examples       *)
(* (harness_demo, studio_banks_test, studio_events_test,                   *)
(* studio_parameters_test) and the core examples (quick_test, play_sound)  *)
(* are sequences of calls with forward branches, each written down as a    *)
(* sequence of operations and run one call per step.                       *)
(* The interactive harness is modelled handler by handler.                 *)
(***************************************************************************)
EXTENDS Integers, Sequences, FiniteSets, TLC

VARIABLES
    run,                \* the program run: which example, its argument, its environment
    pc,                 \* scripted examples: index of the next operation; harness: loop index
    exit,               \* "running", or what main returned: "Ok" / "Err"
    studio,             \* the system object (Studio system, or the core System of
                        \* quick_test / play_sound): "none", "created", "initialized", "released"
    banks,              \* live bank handles: handle name -> bank record
    goneBanks,          \* bank records whose handle has been dropped
    insts,              \* live event instance handles of a scripted example: name -> record
    sounds,             \* the sounds create_sound returned: handle name -> sound record
    dropped,            \* instance records whose handle the last step dropped
    descUses,           \* the calls the last step made on event descriptions
    failedPrimary,      \* the bank loads / create_instance / start calls that failed
    hpc,                \* harness: position in main
    rawMode,            \* harness: the terminal is in raw mode
    rawEnabled,         \* harness: enable_raw_mode has succeeded in this run
    event_descriptions, \* HarnessState.event_descriptions (the paths, in order)
    active_instances,   \* HarnessState.active_instances: slot -> instance record
    source_pos,         \* HarnessState.source_pos, in tenths
    listener_pos,       \* HarnessState.listener_pos, in tenths
    show_help,          \* HarnessState.show_help
    moves               \* number of movement keys handled so far

vars == <<run, pc, exit, studio, banks, goneBanks, insts, sounds, dropped, descUses,
          failedPrimary, hpc, rawMode, rawEnabled, event_descriptions,
          active_instances, source_pos, listener_pos, show_help, moves>>

engineVars == <<studio, banks, goneBanks, insts, sounds, failedPrimary>>
harnessVars == <<hpc, rawMode, rawEnabled, event_descriptions, active_instances,
                 source_pos, listener_pos, show_help, moves>>

\* ------------------------------------------------------------------ bounds

\* Movement keys handled in one run of the harness.
MaxMoves == 1
\* Largest event count a bank reports in studio_banks_test.
MaxListed == 6

\* ------------------------------------------------------------ engine model

Range(f) == {f[k] : k \in DOMAIN f}

\* The event paths the examples use.
EvAmbience == "event:/Ambience/Country"
EvFootsteps == "event:/Character/Player Footsteps"
EvExplosion == "event:/Weapons/Explosion"
EvCancel == "event:/UI/Cancel"
EvMower == "event:/Vehicles/Ride-on Mower"
EvMusic == "event:/Music/Level 01"
\* An event listed by SFX.bank's get_event_list.
EvListed == "event:/<listed by SFX.bank>"

\* The bank that holds an event: the examples load Vehicles.bank for the
\* vehicle event, Music.bank for the music event and SFX.bank for the rest.
OwnerBank(path) ==
    IF path = EvMower THEN "Vehicles.bank"
    ELSE IF path = EvMusic THEN "Music.bank"
    ELSE "SFX.bank"

\* A bank handle as load_bank_file / load_bank_memory returns it.
NewBank(name) == [name |-> name, loaded |-> TRUE, unloads |-> 0, late |-> 0]

\* bank.unload()
Unloaded(b) ==
    [b EXCEPT !.loaded = FALSE, !.unloads = @ + 1,
              !.late = @ + (IF b.unloads > 0 THEN 1 ELSE 0)]

\* Any other method of a bank (get_event_count, get_event_list).
BankCalled(b) == [b EXCEPT !.late = @ + (IF b.unloads > 0 THEN 1 ELSE 0)]

\* An event instance as create_instance returns it.  startedAtRel and
\* stoppedAtRel record, at the first release(), whether start() and stop()
\* had been called; late counts calls made after release().
NewInstance(path) ==
    [path |-> path, starts |-> 0, stops |-> 0, releases |-> 0,
     startedAtRel |-> FALSE, stoppedAtRel |-> FALSE, late |-> 0]

Late(i) == IF i.releases > 0 THEN 1 ELSE 0

\* instance.start()
Started(i) == [i EXCEPT !.starts = @ + 1, !.late = @ + Late(i)]

\* instance.stop(StopMode::AllowFadeout)
Stopped(i) == [i EXCEPT !.stops = @ + 1, !.late = @ + Late(i)]

\* instance.release()
Released(i) ==
    [i EXCEPT !.releases = @ + 1, !.late = @ + Late(i),
              !.startedAtRel = IF i.releases = 0 THEN i.starts > 0 ELSE @,
              !.stoppedAtRel = IF i.releases = 0 THEN i.stops > 0 ELSE @]

\* set_parameter_by_name, set_3d_attributes, set_volume, set_pitch
Touched(i) == [i EXCEPT !.late = @ + Late(i)]

AllBanks == Range(banks) \cup goneBanks
\* Every instance with a handle, and those whose handle the last step dropped.
\* A dropped instance takes no further call, so what holds of it when it is
\* dropped holds of it for the rest of the run.
AllInsts == Range(insts) \cup Range(active_instances) \cup dropped

\* Some loaded bank of that file name exists.
BankLoaded(name) ==
    \/ \E h \in DOMAIN banks : banks[h].name = name /\ banks[h].loaded
    \/ \E b \in goneBanks : b.name = name /\ b.loaded

\* A call on an event description (get_event, create_instance, get_path).
DescUse(call, path) ==
    [call |-> call, path |-> path, ownerLoaded |-> BankLoaded(OwnerBank(path))]

\* ----------------------------------------------------------------- runs

Harness == "interactive_harness"
HarnessDemo == "harness_demo"
BanksTest == "studio_banks_test"
EventsTest == "studio_events_test"
ParametersTest == "studio_parameters_test"
QuickTest == "quick_test"
PlaySound == "play_sound"

\* harness_demo run without a positional argument.
NoArg == "<no argument>"
DemoArgs == {NoArg, "all", "explosion", "spatial", "parameters", "rpm", "footsteps", "bogus"}

\* The environment variable FMOD_SDK_DIR: not set, or set to a string.
EnvUnset == [set |-> FALSE, value |-> ""]
EnvSet(d) == [set |-> TRUE, value |-> d]

\* The SDK directory of the runs where the variable is set.
SdkDir == "/opt/fmodstudioapi"
EnvValues == {EnvUnset, EnvSet(SdkDir)}

\* Result<String, String>
RustOk(v) == [ok |-> TRUE, val |-> v]
RustErr(msg) == [ok |-> FALSE, val |-> msg]

\* lib.rs get_fmod_sdk_dir: env::var("FMOD_SDK_DIR").map_err(..)
get_fmod_sdk_dir(env) ==
    IF env.set THEN RustOk(env.value)
    ELSE RustErr("FMOD_SDK_DIR environment variable not set. Please set it to your FMOD SDK path.")

\* A banks directory that falls back to the working directory.
get_example_banks_dir_or_cwd(env) ==
    RustOk((IF env.set THEN env.value ELSE ".") \o "/api/studio/examples/media")

\* lib.rs get_example_banks_dir: format!("{}/api/studio/examples/media", get_fmod_sdk_dir()?)
get_example_banks_dir(env) ==
    LET dir == get_fmod_sdk_dir(env)
    IN  IF dir.ok THEN RustOk(dir.val \o "/api/studio/examples/media") ELSE dir

\* lib.rs get_example_bank_path: format!("{}/{}", get_example_banks_dir()?, bank_name)
get_example_bank_path(env, bank_name) ==
    LET dir == get_example_banks_dir(env)
    IN  IF dir.ok THEN RustOk(dir.val \o "/" \o bank_name) ELSE dir

\* A run: the example, its argument, the value of FMOD_SDK_DIR, and what
\* studio_banks_test finds on disk and in SFX.bank.  quick_test and
\* play_sound do not read the variable.
Run(prog, demo, env, masterExists, voReadable, listed) ==
    [prog |-> prog, demo |-> demo, env |-> env, masterExists |-> masterExists,
     voReadable |-> voReadable, listed |-> listed]

Runs ==
    {Run(p, NoArg, e, TRUE, TRUE, 0) : p \in {Harness, EventsTest, ParametersTest}, e \in EnvValues}
    \cup {Run(HarnessDemo, d, e, TRUE, TRUE, 0) : d \in DemoArgs, e \in EnvValues}
    \cup {Run(BanksTest, NoArg, EnvSet(SdkDir), m, v, n) : m \in BOOLEAN, v \in BOOLEAN, n \in 0..MaxListed}
    \cup {Run(BanksTest, NoArg, EnvUnset, FALSE, FALSE, 0)}
    \cup {Run(QuickTest, NoArg, EnvSet(SdkDir), TRUE, TRUE, 0)}
    \cup {Run(PlaySound, a, EnvSet(SdkDir), TRUE, TRUE, 0) : a \in {NoArg, "sound.ogg"}}

\* -------------------------------------------------------------- scripts

\* One call of a scripted example.  mode "fatal" is a call followed by `?`;
\* mode "ignore" is a call whose error is handled (.ok(), if let Ok, match),
\* after which the next skip operations (the Ok branch) are skipped; mode
\* "else" is a call whose Err arm is the next skip operations, which are
\* skipped after Ok.
Op(kind, h, arg, mode, skip) ==
    [kind |-> kind, h |-> h, arg |-> arg, mode |-> mode, skip |-> skip]

Must(kind, h, arg) == Op(kind, h, arg, "fatal", 0)
Try(kind, h, arg) == Op(kind, h, arg, "ignore", 0)

\* `if let Ok(x) = call { block }` and `match call { Ok(x) => block, Err(_) => {} }`
IfOk(kind, h, arg, block) == <<Op(kind, h, arg, "ignore", Len(block))>> \o block

\* `match call { Ok(x) => x, Err(e) => { block } }`
OrElse(kind, h, arg, block) == <<Op(kind, h, arg, "else", Len(block))>> \o block

\* `return;` / `return Ok(());`
ReturnEarly == Op("return", "main", "return", "fatal", 0)

RECURSIVE Flatten(_)
Flatten(ss) == IF ss = <<>> THEN <<>> ELSE Head(ss) \o Flatten(Tail(ss))

\* `for i in from..=to { body[i] }`
ForEach(from, to, body) == Flatten([k \in 1..(to - from + 1) |-> body[from + k - 1]])

\* `for _ in 0..n { studio.update()?; thread::sleep(..) }`
UpdateLoop == Must("update_loop", "studio", "update")
Flush == Must("flush", "stdout", "flush")

\* println! of the closing lines of quick_test
Banner == Op("print", "stdout", "integration test PASSED", "ignore", 0)

LoadFile(h, name) == Must("load_bank_file", h, name)
Unload(h) == Must("unload", h, "unload")
GetEvent(path) == Must("get_event", "studio", path)
CreateInstance(h, path) == Must("create_instance", h, path)
Start(h) == Must("start", h, "start")
Stop(h) == Must("stop", h, "stop")
Release(h) == Must("release", h, "release")

\* harness_demo.rs, the loop body of Demo 2 (lines 156-195)
SpatialStep(i) ==
    <<Must("set", "vehicle", "set_3d_attributes")>>
    \o (IF i % 20 = 0 THEN <<Must("set", "vehicle", "RPM")>> ELSE <<>>)
    \o (IF i % 2 = 0 THEN <<Flush>> ELSE <<>>)
    \o <<Must("call", "studio", "update"), Must("call", "core", "update")>>

\* harness_demo.rs, the loop body of Demo 3 (lines 231-254)
RpmStep(i) == <<Flush, Must("set", "vehicle2", "RPM"), UpdateLoop>>

\* harness_demo.rs, the loop body of Demo 4 (lines 283-316)
FootstepStep(i) ==
    <<Flush, CreateInstance("footstep", EvFootsteps), Try("set", "footstep", "Surface"),
      Start("footstep"), Release("footstep"), UpdateLoop, Flush>>

\* harness_demo.rs, cleanup (lines 343-348)
HarnessDemoCleanup ==
    <<Unload("vehicles"), Unload("sfx"), Unload("strings"), Unload("master"),
      Must("studio_release", "studio", "release")>>

\* An argument parser whose default is the first demo.
DemoNameFirstDemo(arg) == IF arg = NoArg THEN "explosion" ELSE arg

\* harness_demo.rs: `let demo_name = if args.len() > 1 { args[1].as_str() } else { "all" }`
DemoName(arg) == IF arg = NoArg THEN "all" ELSE arg

\* harness_demo.rs main
HarnessDemoMain(arg) ==
    LET demo_name == DemoName(arg) IN
    <<Must("create", "studio", "create"),
      Must("call", "studio", "get_core_system"),
      Must("call", "core", "set_software_format"),
      Must("initialize", "studio", "initialize"),
      Must("call", "core", "get_output"),
      Must("call", "core", "get_software_format"),
      Must("call", "core", "get_speaker_mode_channels"),
      Must("call", "core", "get_3d_settings"),
      Must("banks_dir", "env", "FMOD_SDK_DIR"),
      LoadFile("master", "Master.bank"),
      LoadFile("strings", "Master.strings.bank"),
      LoadFile("sfx", "SFX.bank"),
      LoadFile("vehicles", "Vehicles.bank")>>
    \o (IF demo_name \in {"all", "explosion"}
        THEN <<GetEvent(EvExplosion), CreateInstance("explosion", EvExplosion),
               Start("explosion"), UpdateLoop, Release("explosion")>>
        ELSE <<>>)
    \o (IF demo_name \in {"all", "spatial"}
        THEN <<Must("call", "studio", "set_listener_attributes"),
               Must("call", "studio", "get_core_system"),
               Must("call", "core", "set_3d_listener_attributes"),
               Must("call", "core", "set_3d_settings"),
               Must("call", "core", "set_3d_num_listeners"),
               GetEvent(EvMower), CreateInstance("vehicle", EvMower),
               Must("set", "vehicle", "RPM"),
               Must("set", "vehicle", "set_3d_attributes"),
               Must("set", "vehicle", "set_volume"),
               Start("vehicle")>>
             \o ForEach(0, 99, [i \in 0..99 |-> SpatialStep(i)])
             \o <<Stop("vehicle"), UpdateLoop, Release("vehicle")>>
        ELSE <<>>)
    \o (IF demo_name \in {"all", "parameters", "rpm"}
        THEN <<GetEvent(EvMower), CreateInstance("vehicle2", EvMower),
               Must("set", "vehicle2", "RPM"), Start("vehicle2")>>
             \o ForEach(1, 11, [i \in 1..11 |-> RpmStep(i)])
             \o <<Stop("vehicle2"), UpdateLoop, Release("vehicle2")>>
        ELSE <<>>)
    \o (IF demo_name \in {"all", "footsteps"}
        THEN <<GetEvent(EvFootsteps)>> \o ForEach(1, 10, [i \in 1..10 |-> FootstepStep(i)])
        ELSE <<>>)
    \o HarnessDemoCleanup

\* A one-shot that is started and never released.
OneShotLeaked(h, path) ==
    <<CreateInstance(h, path), Start(h), UpdateLoop>>

\* A one-shot whose volume is set after it has been released.
OneShotSetAfterRelease(h, path) ==
    <<CreateInstance(h, path), Start(h), Release(h), Must("set", h, "set_volume"), UpdateLoop>>

\* A one-shot played and released at once, then an update loop
\* (studio_events_test.rs lines 36-47, 84-97, 105-115).
OneShotStep(h, path) ==
    <<CreateInstance(h, path), Start(h), Release(h), UpdateLoop>>

EventsExplosionStep(i) == OneShotStep("explosion", EvExplosion)
EventsFootstepStep(i) == OneShotStep("footstep", EvFootsteps)
EventsCancelStep(i) == OneShotStep("cancel", EvCancel)
EventsUpdateStep(i) == <<UpdateLoop>>

\* studio_events_test.rs, cleanup (lines 171-178)
EventsTestCleanup ==
    <<Unload("music"), Unload("vehicles"), Unload("sfx"), Unload("strings"),
      Unload("master"), Must("studio_release", "studio", "release")>>

\* studio_events_test.rs main
EventsTestMain ==
    <<Must("create", "studio", "create"),
      Must("initialize", "studio", "initialize"),
      Must("banks_dir", "env", "FMOD_SDK_DIR"),
      LoadFile("master", "Master.bank"),
      LoadFile("strings", "Master.strings.bank"),
      LoadFile("sfx", "SFX.bank"),
      LoadFile("vehicles", "Vehicles.bank"),
      LoadFile("music", "Music.bank"),
      GetEvent(EvExplosion)>>
    \o ForEach(1, 3, [i \in 1..3 |-> EventsExplosionStep(i)])
    \o <<GetEvent(EvAmbience), CreateInstance("ambience", EvAmbience), Start("ambience")>>
    \o ForEach(1, 3, [i \in 1..3 |-> EventsUpdateStep(i)])
    \o <<Stop("ambience"), UpdateLoop, Release("ambience"),
         GetEvent(EvFootsteps)>>
    \o ForEach(1, 8, [i \in 1..8 |-> EventsFootstepStep(i)])
    \o <<GetEvent(EvCancel)>>
    \o ForEach(1, 2, [i \in 1..2 |-> EventsCancelStep(i)])
    \o <<GetEvent(EvMower), CreateInstance("vehicle", EvMower), Start("vehicle"),
         UpdateLoop, Stop("vehicle"), UpdateLoop, Release("vehicle")>>
    \o IfOk("get_event", "studio", EvMusic,
            <<CreateInstance("music_inst", EvMusic), Start("music_inst")>>
            \o ForEach(1, 5, [i \in 1..5 |-> EventsUpdateStep(i)])
            \o <<Stop("music_inst"), UpdateLoop, Release("music_inst")>>)
    \o EventsTestCleanup

\* studio_parameters_test.rs, Test 1 loops (lines 43-72)
RpmUpStep(i) ==
    <<Try("set", "vehicle", "RPM"), Try("set", "vehicle", "rpm"),
      Try("set", "vehicle", "EngineRPM"), UpdateLoop>>
RpmDownStep(i) ==
    <<Try("set", "vehicle", "RPM"), Try("set", "vehicle", "rpm"), UpdateLoop>>

\* studio_parameters_test.rs, Test 2 inner loop body (lines 103-121)
SurfaceStep(i) ==
    <<CreateInstance("footstep", EvFootsteps),
      Try("set", "footstep", "Surface"), Try("set", "footstep", "surface"),
      Try("set", "footstep", "Material"),
      Start("footstep"), Release("footstep"), UpdateLoop>>
SurfaceWalk(s) == ForEach(1, 4, [i \in 1..4 |-> SurfaceStep(i)])

VolumeStep(i) == <<Must("set", "ambience", "set_volume"), UpdateLoop>>
PitchStep(i) == <<Must("set", "ambience", "set_pitch"), UpdateLoop>>

\* studio_parameters_test.rs, cleanup (lines 200-206)
ParametersTestCleanup ==
    <<Unload("vehicles"), Unload("sfx"), Unload("strings"), Unload("master"),
      Must("studio_release", "studio", "release")>>

\* studio_parameters_test.rs main
ParametersTestMain ==
    <<Must("create", "studio", "create"),
      Must("initialize", "studio", "initialize"),
      Must("banks_dir", "env", "FMOD_SDK_DIR"),
      LoadFile("master", "Master.bank"),
      LoadFile("strings", "Master.strings.bank"),
      LoadFile("sfx", "SFX.bank"),
      LoadFile("vehicles", "Vehicles.bank"),
      GetEvent(EvMower), CreateInstance("vehicle", EvMower), Start("vehicle")>>
    \o ForEach(0, 4, [i \in 0..4 |-> RpmUpStep(i)])
    \o ForEach(0, 2, [i \in 0..2 |-> RpmDownStep(i)])
    \o <<Stop("vehicle"), UpdateLoop, Release("vehicle"),
         GetEvent(EvFootsteps)>>
    \o ForEach(1, 4, [i \in 1..4 |-> SurfaceWalk(i)])
    \o <<GetEvent(EvAmbience), CreateInstance("ambience", EvAmbience), Start("ambience")>>
    \o ForEach(1, 5, [i \in 1..5 |-> VolumeStep(i)])
    \o ForEach(1, 4, [i \in 1..4 |-> PitchStep(i)])
    \o <<Stop("ambience"), UpdateLoop, Release("ambience"),
         Try("call", "studio", "set_parameter_by_name TimeOfDay"),
         Try("call", "studio", "set_parameter_by_name Weather"),
         Try("call", "studio", "set_parameter_by_name Tension")>>
    \o ParametersTestCleanup

\* `.take(5)` of studio_banks_test.rs line 92
TakeEvents == 5

\* studio_banks_test.rs, Test 2 loop body (lines 62-79)
ContentBank(bank_name) ==
    IfOk("load_bank_file", "bank", bank_name,
         <<Try("bank_call", "bank", "get_event_count"), Unload("bank")>>)

BanksListStep(i) == <<Try("get_path", "event", EvListed)>>

\* studio_banks_test.rs, Test 3 (lines 86-103); count is what get_event_count returns
BanksTestList(count) ==
    IfOk("load_bank_file", "sfx", "SFX.bank",
         IfOk("bank_call", "sfx", "get_event_count",
              IfOk("bank_call", "sfx", "get_event_list",
                   ForEach(1, IF count < TakeEvents THEN count ELSE TakeEvents,
                           [i \in 1..TakeEvents |-> BanksListStep(i)])))
         \o <<Unload("sfx")>>)

\* studio_banks_test.rs main
BanksTestMain(masterExists, voReadable, count) ==
    <<Must("create", "studio", "create"),
      Must("initialize", "studio", "initialize"),
      Must("banks_dir", "env", "FMOD_SDK_DIR")>>
    \o (IF ~masterExists
        THEN <<LoadFile("master", "tests/Master.bank"),
               LoadFile("strings", "tests/Master.strings.bank"),
               Unload("master"), Unload("strings")>>
        ELSE <<LoadFile("master", "Master.bank"),
               LoadFile("strings", "Master.strings.bank")>>
             \o ContentBank("SFX.bank") \o ContentBank("Music.bank")
             \o ContentBank("Vehicles.bank") \o ContentBank("VO.bank")
             \o BanksTestList(count)
             \o (IF voReadable
                 THEN <<Must("load_bank_memory", "vo_bank", "VO.bank"), Unload("vo_bank")>>
                 ELSE <<>>)
             \o <<Unload("strings"), Unload("master")>>)
    \o <<Try("load_bank_file", "_", "nonexistent.bank"),
         Must("studio_release", "studio", "release")>>

\* quick_test.rs main
QuickTestMain ==
    OrElse("create", "system", "create", <<ReturnEarly>>)
    \o OrElse("call", "system", "get_version", <<ReturnEarly>>)
    \o OrElse("initialize", "system", "init", <<ReturnEarly>>)
    \o IfOk("call", "system", "get_driver",
             IfOk("call", "system", "get_num_drivers",
                  <<Try("call", "system", "get_driver_info")>>))
    \o <<Try("create_sound", "_", "test.ogg"),
         Try("studio_release", "system", "release"),
         Banner>>

\* A playback loop that goes round again when is_playing() is not Ok(true).
PlaybackLoopWhileTrue ==
    <<Must("call", "system", "update"),
      Op("call", "channel", "is_playing", "ignore", 2),
      Op("call", "channel", "get_position", "ignore", 1),
      Flush,
      Op("again", "main", "while is_playing", "fatal", 4)>>

\* play_sound.rs, `while is_playing { .. }` (lines 96-118): update()?, then
\* is_playing().unwrap_or(false), which leaves the loop unless it is
\* Ok(true); then get_position, whose Ok value is followed by flush()? when
\* the second has changed; then the next iteration.
PlaybackLoop ==
    <<Must("call", "system", "update"),
      Op("call", "channel", "is_playing", "ignore", 3),
      Op("call", "channel", "get_position", "ignore", 1),
      Flush,
      Op("again", "main", "while is_playing", "fatal", 4)>>

\* A play_sound whose Err arm of create_sound returns with the system unreleased.
PlaySoundMainKeepsSystem(arg) ==
    IF arg = NoArg THEN <<ReturnEarly>>
    ELSE OrElse("call", "path", "exists", <<ReturnEarly>>)
         \o <<Must("create", "system", "create"),
              Must("call", "system", "get_version"),
              Must("initialize", "system", "init")>>
         \o OrElse("create_sound", "sound", arg, <<ReturnEarly>>)
         \o <<Try("call", "sound", "get_length"),
              Must("call", "system", "play_sound")>>
         \o PlaybackLoop
         \o <<Must("sound_release", "sound", "release"),
              Must("studio_release", "system", "release")>>

\* play_sound.rs main
PlaySoundMain(arg) ==
    IF arg = NoArg THEN <<ReturnEarly>>
    ELSE OrElse("call", "path", "exists", <<ReturnEarly>>)
         \o <<Must("create", "system", "create"),
              Must("call", "system", "get_version"),
              Must("initialize", "system", "init")>>
         \o OrElse("create_sound", "sound", arg,
                    <<Must("studio_release", "system", "release"), ReturnEarly>>)
         \o <<Try("call", "sound", "get_length"),
              Must("call", "system", "play_sound")>>
         \o PlaybackLoop
         \o <<Must("sound_release", "sound", "release"),
              Must("studio_release", "system", "release")>>

\* The calls of each scripted run, in program order.
Main(r) ==
    CASE r.prog = HarnessDemo -> HarnessDemoMain(r.demo)
      [] r.prog = QuickTest -> QuickTestMain
      [] r.prog = PlaySound -> PlaySoundMain(r.demo)
      [] r.prog = EventsTest -> EventsTestMain
      [] r.prog = ParametersTest -> ParametersTestMain
      [] r.prog = BanksTest -> BanksTestMain(r.masterExists, r.voReadable, r.listed)
      [] OTHER -> <<>>

Scripts == [r \in Runs |-> Main(r)]

\* ---------------------------------------------------- scripted examples

Scripted == run.prog # Harness
Script == Scripts[run]
AtOp == Scripted /\ exit = "running" /\ pc <= Len(Script)
Cur == Script[pc]

\* A main that looks at no result: every error is dropped.
PropagatesNever(op) == FALSE

\* The `?` operator: the error of a "fatal" call returns from main.
Propagates(op) == op.mode = "fatal"

\* Control after a call: the next operation, the operation after the
\* skipped branch, or main returning Err.
Advance(op, ok) ==
    /\ pc' = IF ok THEN pc + 1 + (IF op.mode = "else" THEN op.skip ELSE 0)
             ELSE IF Propagates(op) THEN pc
             ELSE pc + 1 + (IF op.mode = "else" THEN 0 ELSE op.skip)
    /\ exit' = IF ~ok /\ Propagates(op) THEN "Err" ELSE exit

\* `let h = ...`: h now names rec; the record h named before is dropped.
\* A handle bound to `_` is dropped at once.
Bind(tbl, h, rec) ==
    IF h = "_" THEN tbl
    ELSE [k \in DOMAIN tbl \cup {h} |-> IF k = h THEN rec ELSE tbl[k]]
Dropped(tbl, h, rec) ==
    IF h = "_" THEN {rec} ELSE IF h \in DOMAIN tbl THEN {tbl[h]} ELSE {}

Failed(call, arg) == [call |-> call, arg |-> arg]

\* Studio::create()
SCreate ==
    /\ AtOp /\ Cur.kind = "create"
    /\ \E ok \in BOOLEAN :
        /\ studio' = IF ok THEN "created" ELSE studio
        /\ Advance(Cur, ok)
    /\ UNCHANGED <<run, banks, goneBanks, insts, sounds, failedPrimary>>
    /\ dropped' = {}
    /\ descUses' = {}
    /\ UNCHANGED harnessVars

\* studio.initialize(..)
SInitialize ==
    /\ AtOp /\ Cur.kind = "initialize"
    /\ \E ok \in BOOLEAN :
        /\ studio' = IF ok THEN "initialized" ELSE studio
        /\ Advance(Cur, ok)
    /\ UNCHANGED <<run, banks, goneBanks, insts, sounds, failedPrimary>>
    /\ dropped' = {}
    /\ descUses' = {}
    /\ UNCHANGED harnessVars

\* libfmod_demos::get_example_banks_dir(): Err exactly when FMOD_SDK_DIR is unset
SBanksDir ==
    /\ AtOp /\ Cur.kind = "banks_dir"
    /\ Advance(Cur, get_example_banks_dir(run.env).ok)
    /\ UNCHANGED <<run>>
    /\ UNCHANGED engineVars
    /\ dropped' = {}
    /\ descUses' = {}
    /\ UNCHANGED harnessVars

\* studio.load_bank_file(..) / studio.load_bank_memory(..)
SLoadBank ==
    /\ AtOp /\ Cur.kind \in {"load_bank_file", "load_bank_memory"}
    /\ \E ok \in BOOLEAN :
        /\ banks' = IF ok THEN Bind(banks, Cur.h, NewBank(Cur.arg)) ELSE banks
        /\ goneBanks' = IF ok THEN goneBanks \cup Dropped(banks, Cur.h, NewBank(Cur.arg))
                        ELSE goneBanks
        /\ failedPrimary' = IF ok THEN failedPrimary
                            ELSE failedPrimary \cup {Failed(Cur.kind, Cur.arg)}
        /\ Advance(Cur, ok)
    /\ UNCHANGED <<run, studio, insts, sounds>>
    /\ dropped' = {}
    /\ descUses' = {}
    /\ UNCHANGED harnessVars

\* bank.get_event_count() / bank.get_event_list(..)
SBankCall ==
    /\ AtOp /\ Cur.kind = "bank_call"
    /\ \E ok \in BOOLEAN :
        /\ banks' = [banks EXCEPT ![Cur.h] = BankCalled(@)]
        /\ Advance(Cur, ok)
    /\ UNCHANGED <<run, studio, goneBanks, insts, sounds, failedPrimary>>
    /\ dropped' = {}
    /\ descUses' = {}
    /\ UNCHANGED harnessVars

\* bank.unload()
SUnload ==
    /\ AtOp /\ Cur.kind = "unload"
    /\ \E ok \in BOOLEAN :
        /\ banks' = [banks EXCEPT ![Cur.h] = IF ok THEN Unloaded(@) ELSE BankCalled(@)]
        /\ Advance(Cur, ok)
    /\ UNCHANGED <<run, studio, goneBanks, insts, sounds, failedPrimary>>
    /\ dropped' = {}
    /\ descUses' = {}
    /\ UNCHANGED harnessVars

\* studio.get_event(path) / event.get_path()
SDescCall ==
    /\ AtOp /\ Cur.kind \in {"get_event", "get_path"}
    /\ \E ok \in BOOLEAN :
        /\ descUses' = {DescUse(Cur.kind, Cur.arg)}
        /\ Advance(Cur, ok)
    /\ UNCHANGED <<run, studio, banks, goneBanks, insts, sounds, failedPrimary>>
    /\ dropped' = {}
    /\ UNCHANGED harnessVars

\* desc.create_instance()
SCreateInstance ==
    /\ AtOp /\ Cur.kind = "create_instance"
    /\ \E ok \in BOOLEAN :
        /\ descUses' = {DescUse(Cur.kind, Cur.arg)}
        /\ insts' = IF ok THEN Bind(insts, Cur.h, NewInstance(Cur.arg)) ELSE insts
        /\ dropped' = IF ok THEN Dropped(insts, Cur.h, NewInstance(Cur.arg)) ELSE {}
        /\ failedPrimary' = IF ok THEN failedPrimary
                            ELSE failedPrimary \cup {Failed(Cur.kind, Cur.arg)}
        /\ Advance(Cur, ok)
    /\ UNCHANGED <<run, studio, banks, goneBanks, sounds>>
    /\ UNCHANGED harnessVars

\* instance.set_parameter_by_name / set_3d_attributes / set_volume / set_pitch
SSet ==
    /\ AtOp /\ Cur.kind = "set"
    /\ \E ok \in BOOLEAN :
        /\ insts' = [insts EXCEPT ![Cur.h] = Touched(@)]
        /\ Advance(Cur, ok)
    /\ UNCHANGED <<run, studio, banks, goneBanks, sounds, failedPrimary>>
    /\ dropped' = {}
    /\ descUses' = {}
    /\ UNCHANGED harnessVars

\* instance.start()
SStart ==
    /\ AtOp /\ Cur.kind = "start"
    /\ \E ok \in BOOLEAN :
        /\ insts' = [insts EXCEPT ![Cur.h] = IF ok THEN Started(@) ELSE Touched(@)]
        /\ failedPrimary' = IF ok THEN failedPrimary
                            ELSE failedPrimary \cup {Failed(Cur.kind, insts[Cur.h].path)}
        /\ Advance(Cur, ok)
    /\ UNCHANGED <<run, studio, banks, goneBanks, sounds>>
    /\ dropped' = {}
    /\ descUses' = {}
    /\ UNCHANGED harnessVars

\* instance.stop(StopMode::AllowFadeout)
SStop ==
    /\ AtOp /\ Cur.kind = "stop"
    /\ \E ok \in BOOLEAN :
        /\ insts' = [insts EXCEPT ![Cur.h] = IF ok THEN Stopped(@) ELSE Touched(@)]
        /\ Advance(Cur, ok)
    /\ UNCHANGED <<run, studio, banks, goneBanks, sounds, failedPrimary>>
    /\ dropped' = {}
    /\ descUses' = {}
    /\ UNCHANGED harnessVars

\* instance.release()
SRelease ==
    /\ AtOp /\ Cur.kind = "release"
    /\ \E ok \in BOOLEAN :
        /\ insts' = [insts EXCEPT ![Cur.h] = IF ok THEN Released(@) ELSE Touched(@)]
        /\ Advance(Cur, ok)
    /\ UNCHANGED <<run, studio, banks, goneBanks, sounds, failedPrimary>>
    /\ dropped' = {}
    /\ descUses' = {}
    /\ UNCHANGED harnessVars

\* A studio/core call that changes nothing modelled here, an update loop, or
\* a flush of stdout.
SCall ==
    /\ AtOp /\ Cur.kind \in {"call", "update_loop", "flush"}
    /\ \E ok \in BOOLEAN : Advance(Cur, ok)
    /\ UNCHANGED <<run>>
    /\ UNCHANGED engineVars
    /\ dropped' = {}
    /\ descUses' = {}
    /\ UNCHANGED harnessVars

\* studio.release()
SStudioRelease ==
    /\ AtOp /\ Cur.kind = "studio_release"
    /\ \E ok \in BOOLEAN :
        /\ studio' = IF ok THEN "released" ELSE studio
        /\ Advance(Cur, ok)
    /\ UNCHANGED <<run, banks, goneBanks, insts, sounds, failedPrimary>>
    /\ dropped' = {}
    /\ descUses' = {}
    /\ UNCHANGED harnessVars

\* A sound as create_sound returns it.
NewSound(file) == [file |-> file, releases |-> 0]

\* system.create_sound(..); a sound bound to `_` stays in the table under
\* that name, where no call reaches it
SCreateSound ==
    /\ AtOp /\ Cur.kind = "create_sound"
    /\ \E ok \in BOOLEAN :
        /\ sounds' = IF ok THEN [k \in DOMAIN sounds \cup {Cur.h} |->
                                    IF k = Cur.h THEN NewSound(Cur.arg) ELSE sounds[k]]
                      ELSE sounds
        /\ Advance(Cur, ok)
    /\ UNCHANGED <<run, studio, banks, goneBanks, insts, failedPrimary>>
    /\ dropped' = {}
    /\ descUses' = {}
    /\ UNCHANGED harnessVars

\* sound.release()
SSoundRelease ==
    /\ AtOp /\ Cur.kind = "sound_release"
    /\ \E ok \in BOOLEAN :
        /\ sounds' = IF ok THEN [sounds EXCEPT ![Cur.h].releases = @ + 1] ELSE sounds
        /\ Advance(Cur, ok)
    /\ UNCHANGED <<run, studio, banks, goneBanks, insts, failedPrimary>>
    /\ dropped' = {}
    /\ descUses' = {}
    /\ UNCHANGED harnessVars

\* The end of a loop body: control goes back to the head of the loop.
SAgain ==
    /\ AtOp /\ Cur.kind = "again"
    /\ pc' = pc - Cur.skip
    /\ UNCHANGED <<run, exit>>
    /\ UNCHANGED engineVars
    /\ dropped' = {}
    /\ descUses' = {}
    /\ UNCHANGED harnessVars

\* println!: the text is written, and main goes on.
SPrint ==
    /\ AtOp /\ Cur.kind = "print"
    /\ pc' = pc + 1
    /\ UNCHANGED <<run, exit>>
    /\ UNCHANGED engineVars
    /\ dropped' = {}
    /\ descUses' = {}
    /\ UNCHANGED harnessVars

\* `return;` in a handled arm of quick_test, `return Ok(());` in play_sound
SReturnEarly ==
    /\ AtOp /\ Cur.kind = "return"
    /\ exit' = "Ok"
    /\ UNCHANGED <<run, pc>>
    /\ UNCHANGED engineVars
    /\ dropped' = {}
    /\ descUses' = {}
    /\ UNCHANGED harnessVars

\* The end of main: Ok(())
SReturnOk ==
    /\ Scripted /\ exit = "running" /\ pc = Len(Script) + 1
    /\ exit' = "Ok"
    /\ UNCHANGED <<run, pc>>
    /\ UNCHANGED engineVars
    /\ dropped' = {}
    /\ descUses' = {}
    /\ UNCHANGED harnessVars

ScriptNext ==
    \/ SCreate \/ SInitialize \/ SBanksDir \/ SLoadBank \/ SBankCall \/ SUnload
    \/ SDescCall \/ SCreateInstance \/ SSet \/ SStart \/ SStop \/ SRelease
    \/ SCall \/ SStudioRelease \/ SCreateSound \/ SSoundRelease \/ SAgain \/ SPrint
    \/ SReturnEarly
    \/ SReturnOk

\* --------------------------------------------------- interactive harness

\* A startup that loads VO.bank in place of Vehicles.bank.
HBankFilesNoVehicles ==
    <<"Master.bank", "Master.strings.bank", "SFX.bank", "Music.bank", "VO.bank">>

\* interactive_harness.rs, the banks HarnessState::new loads, in Vec order
HBankFiles == <<"Master.bank", "Master.strings.bank", "SFX.bank", "Music.bank", "Vehicles.bank">>
HBankHandles == <<"banks[0]", "banks[1]", "banks[2]", "banks[3]", "banks[4]">>

\* interactive_harness.rs, event_paths of HarnessState::new
event_paths == <<EvAmbience, EvFootsteps, EvExplosion, EvCancel, EvMower, EvMusic>>

\* source_pos and listener_pos of HarnessState::new, in tenths
DefaultSource == <<0, 0, -50>>
DefaultListener == <<0, 0, 0>>

\* The keys of active_instances that the key handlers can name.
Slots == 0..5

\* path.contains(needle), for the paths and needles of play_event
Contains(path, needle) ==
    <<path, needle>> \in {<<EvFootsteps, "Footstep">>, <<EvExplosion, "Explosion">>,
                          <<EvMower, "Vehicle">>, <<EvMower, "Ride-on Mower">>}

\* A play_event that tracks every event it starts, one-shot or not.
IsOneShotNever(path) == FALSE

\* play_event: `let is_one_shot = ...`
IsOneShot(path) == Contains(path, "Footstep") \/ Contains(path, "Explosion")

\* play_event: the event takes the RPM parameter
IsVehicle(path) == Contains(path, "Vehicle") \/ Contains(path, "Ride-on Mower")

\* One engine call of a key handler; real arguments are in tenths.
Call(call, name, arg) == [call |-> call, name |-> name, arg |-> arg]

\* An insert under the number of the key (1-based) in place of the index.
MapInsertByKey(m, k, v) == [x \in DOMAIN m \cup {k + 1} |-> IF x = k + 1 THEN v ELSE m[x]]

MapInsert(m, k, v) == [x \in DOMAIN m \cup {k} |-> IF x = k THEN v ELSE m[x]]
MapRemove(m, k) == [x \in DOMAIN m \ {k} |-> m[x]]

\* What a HarnessState method did: whether it returned Ok, the new
\* active_instances, the instance handles it dropped, the engine calls it
\* issued, the description calls and the failed primary calls.
Result(ok, active, gone, calls, uses, failed) ==
    [ok |-> ok, active |-> active, gone |-> gone, calls |-> calls, uses |-> uses,
     failed |-> failed]

\* The calls a handler can see fail.
StopCalls == {"stop", "release"}

\* HarnessState::play_event(index); f is the set of calls that fail
play_event(index, f) ==
    IF index >= Len(event_descriptions)
    THEN Result(TRUE, active_instances, {}, <<>>, {}, {})
    ELSE
    LET path == event_descriptions[index + 1]
        uses == {DescUse("create_instance", path)}
        c1 == <<Call("create_instance", "", <<>>)>>
        i1 == Touched(NewInstance(path))
        c2 == c1 \o <<Call("set_3d_attributes", "", source_pos)>>
        hasParam == IsVehicle(path) \/ Contains(path, "Footstep")
        c3 == c2 \o (IF IsVehicle(path)
                     THEN <<Call("set_parameter_by_name", "RPM", <<15000>>)>>
                     ELSE IF Contains(path, "Footstep")
                     THEN <<Call("set_parameter_by_name", "Surface", <<10>>)>>
                     ELSE <<>>)
        i3 == IF hasParam THEN Touched(i1) ELSE i1
        c4 == c3 \o <<Call("start", "", <<>>)>>
        i4 == Started(i3)
        c5 == c4 \o <<Call("release", "", <<>>)>>
    IN  IF "create_instance" \in f
        THEN Result(FALSE, active_instances, {}, c1, uses,
                    {Failed("create_instance", path)})
        ELSE IF IsVehicle(path) /\ "set_parameter_by_name" \in f
        THEN Result(FALSE, active_instances, {i3}, c3, uses, {})
        ELSE IF "start" \in f
        THEN Result(FALSE, active_instances, {Touched(i3)}, c4, uses,
                    {Failed("start", path)})
        ELSE IF IsOneShot(path)
        THEN IF "release" \in f
             THEN Result(FALSE, active_instances, {Touched(i4)}, c5, uses, {})
             ELSE Result(TRUE, active_instances, {Released(i4)}, c5, uses, {})
        ELSE Result(TRUE, MapInsert(active_instances, index, i4),
                    IF index \in DOMAIN active_instances
                    THEN {active_instances[index]} ELSE {},
                    c4, uses, {})

\* HarnessState::stop_event(index); f is the set of calls that fail
stop_event(index, f) ==
    IF index \notin DOMAIN active_instances
    THEN Result(TRUE, active_instances, {}, <<>>, {}, {})
    ELSE
    LET i0 == active_instances[index]
        rest == MapRemove(active_instances, index)
        c1 == <<Call("stop", "", <<>>)>>
        c2 == c1 \o <<Call("release", "", <<>>)>>
    IN  IF "stop" \in f
        THEN Result(FALSE, rest, {Touched(i0)}, c1, {}, {})
        ELSE IF "release" \in f
        THEN Result(FALSE, rest, {Touched(Stopped(i0))}, c2, {}, {})
        ELSE Result(TRUE, rest, {Released(Stopped(i0))}, c2, {}, {})

\* A drain loop that releases each instance without stopping it.
ReleaseOnly(i) == Released(i)

\* A drain loop that stops each instance and forgets to release it.
StopOnly(i) == Stopped(i)

\* The body of stop_all_events for one drained instance.
StopAndRelease(i) == Released(Stopped(i))

\* A stop_all_events that walks the map with iter() and leaves it filled.
stop_all_events_by_iter(done, bad, f) ==
    Result(TRUE,
           [s \in DOMAIN active_instances |-> StopAndRelease(active_instances[s])],
           {},
           [s \in Slots |-> IF s \in DOMAIN active_instances
                            THEN <<Call("stop", "", <<>>), Call("release", "", <<>>)>>
                            ELSE <<>>],
           {}, {})

\* HarnessState::stop_all_events().  drain() yields the instances in no
\* particular order: done are the slots handled before a call failed on
\* slot bad (f the calls that fail on it); with bad = -1 nothing fails.
\* The map is empty afterwards in every case (drain drops what is left).
\* calls is per slot here.
stop_all_events(done, bad, f) ==
    LET a == active_instances
        left == DOMAIN a \ (done \cup {bad})
        stopFails == bad \in DOMAIN a /\ "stop" \in f
        badGone == IF bad \notin DOMAIN a THEN {}
                   ELSE IF stopFails THEN {Touched(a[bad])}
                   ELSE {Touched(Stopped(a[bad]))}
        both == <<Call("stop", "", <<>>), Call("release", "", <<>>)>>
        calls == [s \in Slots |->
                    IF s \in done THEN both
                    ELSE IF s = bad /\ stopFails THEN <<Call("stop", "", <<>>)>>
                    ELSE IF s = bad THEN both
                    ELSE <<>>]
    IN  Result(bad \notin DOMAIN a, <<>>,
               {StopAndRelease(a[s]) : s \in done} \cup badGone \cup {a[s] : s \in left},
               calls, {}, {})

\* The ways stop_all_events can run: all slots done, or a failure on one.
StopAllRuns ==
    {<<DOMAIN active_instances, -1, {}>>}
    \cup UNION {{<<d, b, {c}>> : d \in SUBSET (DOMAIN active_instances \ {b}),
                                 c \in StopCalls} : b \in DOMAIN active_instances}

\* HarnessState::move_source(dx, dy, dz): the position after the move
MovedTo(pos, dx, dy, dz) == <<pos[1] + dx, pos[2] + dy, pos[3] + dz>>

\* HarnessState::move_source: the set_3d_attributes pushed to the instances
PushPosition(pos) ==
    [s \in Slots |-> IF s \in DOMAIN active_instances
                     THEN <<Call("set_3d_attributes", "", pos)>> ELSE <<>>]

\* A call on every active instance (move_source, adjust_parameter).
TouchAll == [s \in DOMAIN active_instances |-> Touched(active_instances[s])]

\* HarnessState::move_source(dx, dy, dz) from position pos; f is the set of
\* calls that fail.  Every result is `.ok()`ed and the method ends in Ok(()).
\* calls is per slot here.
move_source(pos, dx, dy, dz, f) ==
    Result(TRUE, TouchAll, {}, PushPosition(MovedTo(pos, dx, dy, dz)), {}, {})

\* An adjust_parameter that nudges from the RPM play_event starts with.
adjust_parameter_from_start(delta, f) ==
    Result(TRUE, TouchAll, {},
           [s \in Slots |-> IF s \in DOMAIN active_instances
                            THEN <<Call("set_parameter_by_name", "RPM", <<15000 + delta * 1000>>),
                                   Call("set_parameter_by_name", "Surface", <<delta>>)>>
                            ELSE <<>>],
           {}, {})

\* HarnessState::adjust_parameter(delta), delta in tenths; f is the set of
\* calls that fail.  calls is per slot here.
adjust_parameter(delta, f) ==
    Result(TRUE, TouchAll, {},
           [s \in Slots |-> IF s \in DOMAIN active_instances
                            THEN <<Call("set_parameter_by_name", "RPM", <<20000 + delta * 1000>>),
                                   Call("set_parameter_by_name", "Surface", <<delta>>)>>
                            ELSE <<>>],
           {}, {})

\* Movement keys with forward and back exchanged.
DirectionSwapped ==
    [w |-> <<0, 0, 1>>, s |-> <<0, 0, -1>>, a |-> <<-1, 0, 0>>, d |-> <<1, 0, 0>>,
     q |-> <<0, 1, 0>>, e |-> <<0, -1, 0>>]

\* The arms of the movement keys: the signs of <<dx, dy, dz>> in the call
\* of move_source, by key (either case)
Direction ==
    [w |-> <<0, 0, -1>>, s |-> <<0, 0, 1>>, a |-> <<-1, 0, 0>>, d |-> <<1, 0, 0>>,
     q |-> <<0, 1, 0>>, e |-> <<0, -1, 0>>]

\* The movement keys: <<dx, dy, dz>> signs of w, s, a, d, q, e
MoveKeys == Range(Direction)

\* `let delta = if modifiers.contains(KeyModifiers::SHIFT) { 0.1 } else { 1.0 }`, in tenths
Step(shift) == IF shift THEN 1 ELSE 10

InHarness(at) == run.prog = Harness /\ exit = "running" /\ hpc = at

\* main returns: `state` goes out of scope, and with it the instance handles
\* left (the fields are shown as HarnessState::new builds them).
Return(result, left) ==
    /\ exit' = result
    /\ dropped' = left
    /\ event_descriptions' = <<>>
    /\ active_instances' = <<>>
    /\ source_pos' = DefaultSource
    /\ listener_pos' = DefaultListener
    /\ show_help' = FALSE
    /\ moves' = 0

\* A `?` in main or HarnessState::new: main returns Err where it stands.
HReturnErr ==
    /\ Return("Err", Range(active_instances))
    /\ UNCHANGED <<run, pc, hpc, rawMode, rawEnabled>>
    /\ UNCHANGED engineVars
    /\ descUses' = {}

\* enable_raw_mode()?
HEnableRaw ==
    /\ InHarness("enable_raw_mode")
    /\ \/ /\ rawMode' = TRUE
          /\ rawEnabled' = TRUE
          /\ hpc' = "create"
          /\ UNCHANGED <<run, pc, exit, event_descriptions, active_instances, source_pos,
                         listener_pos, show_help, moves>>
          /\ UNCHANGED engineVars
          /\ dropped' = {}
          /\ descUses' = {}
       \/ HReturnErr

\* HarnessState::new: Studio::create()?
HCreate ==
    /\ InHarness("create")
    /\ \/ /\ studio' = "created"
          /\ hpc' = "initialize"
          /\ UNCHANGED <<run, pc, exit, banks, goneBanks, insts, sounds, failedPrimary, rawMode,
                         rawEnabled, event_descriptions, active_instances, source_pos,
                         listener_pos, show_help, moves>>
          /\ dropped' = {}
          /\ descUses' = {}
       \/ HReturnErr

\* HarnessState::new: studio.initialize(..)?
HInitialize ==
    /\ InHarness("initialize")
    /\ \/ /\ studio' = "initialized"
          /\ hpc' = "banks_dir"
          /\ UNCHANGED <<run, pc, exit, banks, goneBanks, insts, sounds, failedPrimary, rawMode,
                         rawEnabled, event_descriptions, active_instances, source_pos,
                         listener_pos, show_help, moves>>
          /\ dropped' = {}
          /\ descUses' = {}
       \/ HReturnErr

\* HarnessState::new: get_example_banks_dir()?
HBanksDir ==
    /\ InHarness("banks_dir")
    /\ IF get_example_banks_dir(run.env).ok
       THEN /\ hpc' = "load_banks"
            /\ pc' = 1
            /\ UNCHANGED <<run, exit, rawMode, rawEnabled, event_descriptions,
                           active_instances, source_pos, listener_pos, show_help, moves>>
            /\ UNCHANGED engineVars
            /\ dropped' = {}
            /\ descUses' = {}
       ELSE HReturnErr

\* HarnessState::new: banks.push(studio.load_bank_file(..)?), five times
HLoadBank ==
    /\ InHarness("load_banks")
    /\ \/ /\ banks' = Bind(banks, HBankHandles[pc], NewBank(HBankFiles[pc]))
          /\ pc' = IF pc = Len(HBankFiles) THEN 1 ELSE pc + 1
          /\ hpc' = IF pc = Len(HBankFiles) THEN "get_events" ELSE hpc
          /\ UNCHANGED <<run, exit, studio, goneBanks, insts, sounds, failedPrimary, rawMode,
                         rawEnabled, event_descriptions, active_instances, source_pos,
                         listener_pos, show_help, moves>>
          /\ dropped' = {}
          /\ descUses' = {}
       \/ /\ Return("Err", Range(active_instances))
          /\ failedPrimary' = failedPrimary \cup {Failed("load_bank_file", HBankFiles[pc])}
          /\ UNCHANGED <<run, pc, studio, banks, goneBanks, insts, sounds, hpc, rawMode, rawEnabled>>
          /\ descUses' = {}

\* HarnessState::new: `if let Ok(desc) = studio.get_event(path) { push }`
HGetEvent ==
    /\ InHarness("get_events")
    /\ \E ok \in BOOLEAN :
        event_descriptions' = IF ok THEN Append(event_descriptions, event_paths[pc])
                              ELSE event_descriptions
    /\ descUses' = {DescUse("get_event", event_paths[pc])}
    /\ pc' = IF pc = Len(event_paths) THEN 1 ELSE pc + 1
    /\ hpc' = IF pc = Len(event_paths) THEN "update" ELSE hpc
    /\ UNCHANGED <<run, exit, studio, banks, goneBanks, insts, sounds, failedPrimary, rawMode,
                   rawEnabled, active_instances, source_pos, listener_pos, show_help, moves>>
    /\ dropped' = {}

\* main loop: state.update()?
HUpdate ==
    /\ InHarness("update")
    /\ \/ /\ hpc' = "draw_ui"
          /\ UNCHANGED <<run, pc, exit, rawMode, rawEnabled, event_descriptions,
                         active_instances, source_pos, listener_pos, show_help, moves>>
          /\ UNCHANGED engineVars
          /\ dropped' = {}
          /\ descUses' = {}
       \/ HReturnErr

\* main loop: draw_ui(&state)?
HDrawUi ==
    /\ InHarness("draw_ui")
    /\ \/ /\ hpc' = "poll"
          /\ UNCHANGED <<run, pc, exit, rawMode, rawEnabled, event_descriptions,
                         active_instances, source_pos, listener_pos, show_help, moves>>
          /\ UNCHANGED engineVars
          /\ dropped' = {}
          /\ descUses' = {}
       \/ HReturnErr

\* A poll that ends the program when no key arrives.
HPollNoKeyReturns ==
    /\ InHarness("poll")
    /\ Return("Ok", Range(active_instances))
    /\ UNCHANGED <<run, pc, hpc, rawMode, rawEnabled>>
    /\ UNCHANGED engineVars
    /\ descUses' = {}

\* main loop: event::poll(..)? timed out, event::read()? gave an event that
\* is no key press, or either returned an error
HPollNoKey ==
    /\ InHarness("poll")
    /\ \/ /\ hpc' = "update"
          /\ UNCHANGED <<run, pc, exit, rawMode, rawEnabled, event_descriptions,
                         active_instances, source_pos, listener_pos, show_help, moves>>
          /\ UNCHANGED engineVars
          /\ dropped' = {}
          /\ descUses' = {}
       \/ HReturnErr

\* The end of a key handler that called a HarnessState method: its effects,
\* then the next loop iteration or, on `?`, main returning Err.
Handled(res, pos, mv) ==
    /\ IF res.ok
       THEN /\ active_instances' = res.active
            /\ dropped' = res.gone
            /\ source_pos' = pos
            /\ moves' = mv
            /\ hpc' = "update"
            /\ UNCHANGED <<exit, event_descriptions, listener_pos, show_help>>
       ELSE /\ Return("Err", res.gone \cup Range(res.active))
            /\ UNCHANGED hpc
    /\ descUses' = res.uses
    /\ failedPrimary' = failedPrimary \cup res.failed
    /\ UNCHANGED <<run, pc, studio, banks, goneBanks, insts, sounds, rawMode, rawEnabled>>

\* The names of the calls in a call sequence.
CallsOf(calls) == {calls[j].call : j \in 1..Len(calls)}

\* An arm that restarts a playing slot: stop, then start again.
toggle_restart(index, f) ==
    IF index \in DOMAIN active_instances
    THEN LET p == play_event(index, f)
         IN  [p EXCEPT !.calls = <<Call("stop", "", <<>>)>> \o @]
    ELSE play_event(index, f)

\* An arm without the contains_key test: it plays whatever the slot holds.
toggle_play(index, f) == play_event(index, f)

\* KeyCode::Char('1') .. KeyCode::Char('6'): the body of the arm of key k
\* toggles slot k - 1
toggle(index, f) ==
    IF index \in DOMAIN active_instances THEN stop_event(index, f) ELSE play_event(index, f)

\* The guard of the arm of key k: `if state.event_descriptions.len() > k - 1`, none for '1'
ArmTaken(k) == k = 1 \/ Len(event_descriptions) > k - 1

\* An arm that plays the last resolved event for a key beyond the list.
NumKeyClamped(k, f) ==
    toggle(IF k > Len(event_descriptions) /\ event_descriptions # <<>>
           THEN Len(event_descriptions) - 1 ELSE k - 1, f)

\* The arm of key k as a whole.
NumKey(k, f) ==
    IF ArmTaken(k) THEN toggle(k - 1, f)
    ELSE Result(TRUE, active_instances, {}, <<>>, {}, {})

\* The failures one key press can meet: none, or one of the calls it makes.
\* (Further failing calls of the same press lead to no other state.)
NumKeyFailures(k) == {{}} \cup {{c} : c \in CallsOf(NumKey(k, {}).calls)}

HKeyNum ==
    /\ InHarness("poll")
    /\ \E k \in 1..6 : \E f \in NumKeyFailures(k) :
        Handled(NumKey(k, f), source_pos, moves)

\* KeyCode::Char(' ')
HKeySpace ==
    /\ InHarness("poll")
    /\ \E r \in StopAllRuns :
        Handled(stop_all_events(r[1], r[2], r[3]), source_pos, moves)

\* The calls pushed to the active instances may fail; the handlers ignore it.
PushFailures(call) == IF DOMAIN active_instances = {} THEN {{}} ELSE {{}, {call}}

\* KeyCode::Char('w' | 's' | 'a' | 'd' | 'q' | 'e'), with or without Shift
HKeyMove ==
    /\ InHarness("poll")
    /\ moves < MaxMoves
    /\ \E d \in MoveKeys, shift \in BOOLEAN, f \in PushFailures("set_3d_attributes") :
        LET dx == d[1] * Step(shift)
            dy == d[2] * Step(shift)
            dz == d[3] * Step(shift)
        IN  Handled(move_source(source_pos, dx, dy, dz, f),
                    MovedTo(source_pos, dx, dy, dz), moves + 1)

\* A reset that puts the source at the origin.
ResetToOrigin == <<0, 0, 0>>

\* KeyCode::Char('r' | 'R'): the literal of `state.source_pos = Vector { .. }`, in tenths
ResetSource == <<0, 0, -50>>

\* KeyCode::Char('r' | 'R'): `state.source_pos = Vector { .. }`, then
\* state.move_source(0.0, 0.0, 0.0)?
HKeyReset ==
    /\ InHarness("poll")
    /\ \E f \in PushFailures("set_3d_attributes") :
        Handled(move_source(ResetSource, 0, 0, 0, f),
                MovedTo(ResetSource, 0, 0, 0), moves)

\* KeyCode::Char('+' | '=') and KeyCode::Char('-' | '_')
ParamKeys == {1, -1}

HKeyParam ==
    /\ InHarness("poll")
    /\ \E delta \in ParamKeys, f \in PushFailures("set_parameter_by_name") :
        Handled(adjust_parameter(delta, f), source_pos, moves)

\* A help arm that reads the next key without going round the loop.
HKeyHelpNoUpdate ==
    /\ InHarness("poll")
    /\ show_help' = ~show_help
    /\ hpc' = "poll"
    /\ UNCHANGED <<run, pc, exit, rawMode, rawEnabled, event_descriptions, active_instances,
                   source_pos, listener_pos, moves>>
    /\ UNCHANGED engineVars
    /\ dropped' = {}
    /\ descUses' = {}

\* KeyCode::Char('h' | 'H')
HKeyHelp ==
    /\ InHarness("poll")
    /\ show_help' = ~show_help
    /\ hpc' = "update"
    /\ UNCHANGED <<run, pc, exit, rawMode, rawEnabled, event_descriptions, active_instances,
                   source_pos, listener_pos, moves>>
    /\ UNCHANGED engineVars
    /\ dropped' = {}
    /\ descUses' = {}

\* An arm for the other keys that falls into the Space arm.
OtherKeyStopsAll == stop_all_events(DOMAIN active_instances, -1, {})

\* `_ => {}`: the arm of every other key calls nothing
OtherKey == Result(TRUE, active_instances, {}, [s \in Slots |-> <<>>], {}, {})

\* `_ => {}`
HKeyOther ==
    /\ InHarness("poll")
    /\ Handled(OtherKey, source_pos, moves)

\* KeyCode::Esc => break
HKeyEsc ==
    /\ InHarness("poll")
    /\ hpc' = "cleanup_stop"
    /\ UNCHANGED <<run, pc, exit, rawMode, rawEnabled, event_descriptions, active_instances,
                   source_pos, listener_pos, show_help, moves>>
    /\ UNCHANGED engineVars
    /\ dropped' = {}
    /\ descUses' = {}

\* cleanup: state.stop_all_events()?
HCleanupStopAll ==
    /\ InHarness("cleanup_stop")
    /\ \E r \in StopAllRuns :
        LET res == stop_all_events(r[1], r[2], r[3])
        IN  IF res.ok
            THEN /\ active_instances' = res.active
                 /\ dropped' = res.gone
                 /\ hpc' = "cleanup_unload"
                 /\ UNCHANGED <<exit, event_descriptions, source_pos, listener_pos,
                                show_help, moves>>
            ELSE /\ Return("Err", res.gone \cup Range(res.active))
                 /\ UNCHANGED hpc
    /\ pc' = 1
    /\ UNCHANGED <<run, studio, banks, goneBanks, insts, sounds, failedPrimary, rawMode, rawEnabled>>
    /\ descUses' = {}

\* A cleanup loop that stops one bank short.
BanksToUnloadButLast == <<"banks[0]", "banks[1]", "banks[2]", "banks[3]">>

\* The banks main unloads, in order: `for bank in state.banks.iter()`
BanksToUnload == HBankHandles

\* cleanup: bank.unload()? for each bank
HCleanupUnload ==
    /\ InHarness("cleanup_unload")
    /\ \/ /\ banks' = [banks EXCEPT ![BanksToUnload[pc]] = Unloaded(@)]
          /\ pc' = IF pc = Len(BanksToUnload) THEN 1 ELSE pc + 1
          /\ hpc' = IF pc = Len(BanksToUnload) THEN "cleanup_release" ELSE hpc
          /\ UNCHANGED <<run, exit, studio, goneBanks, insts, sounds, failedPrimary, rawMode,
                         rawEnabled, event_descriptions, active_instances, source_pos,
                         listener_pos, show_help, moves>>
          /\ dropped' = {}
          /\ descUses' = {}
       \/ HReturnErr

\* cleanup: state.studio.release()?
HCleanupRelease ==
    /\ InHarness("cleanup_release")
    /\ \/ /\ studio' = "released"
          /\ hpc' = "disable_raw_mode"
          /\ UNCHANGED <<run, pc, exit, banks, goneBanks, insts, sounds, failedPrimary, rawMode,
                         rawEnabled, event_descriptions, active_instances, source_pos,
                         listener_pos, show_help, moves>>
          /\ dropped' = {}
          /\ descUses' = {}
       \/ HReturnErr

\* disable_raw_mode()?, then Ok(())
HDisableRaw ==
    /\ InHarness("disable_raw_mode")
    /\ \/ /\ rawMode' = FALSE
          /\ Return("Ok", Range(active_instances))
          /\ hpc' = "returned"
          /\ UNCHANGED <<run, pc, rawEnabled>>
          /\ UNCHANGED engineVars
          /\ descUses' = {}
       \/ HReturnErr

HarnessNext ==
    \/ HEnableRaw \/ HCreate \/ HInitialize \/ HBanksDir \/ HLoadBank \/ HGetEvent
    \/ HUpdate \/ HDrawUi \/ HPollNoKey
    \/ HKeyNum \/ HKeySpace \/ HKeyMove \/ HKeyReset \/ HKeyParam \/ HKeyHelp
    \/ HKeyOther \/ HKeyEsc
    \/ HCleanupStopAll \/ HCleanupUnload \/ HCleanupRelease \/ HDisableRaw

\* ------------------------------------------------------------ the system

Init ==
    /\ run \in Runs
    /\ pc = 1
    /\ exit = "running"
    /\ studio = "none"
    /\ banks = <<>>
    /\ goneBanks = {}
    /\ insts = <<>>
    /\ sounds = <<>>
    /\ dropped = {}
    /\ descUses = {}
    /\ failedPrimary = {}
    /\ hpc = "enable_raw_mode"
    /\ rawMode = FALSE
    /\ rawEnabled = FALSE
    /\ event_descriptions = <<>>
    /\ active_instances = <<>>
    /\ source_pos = DefaultSource
    /\ listener_pos = DefaultListener
    /\ show_help = FALSE
    /\ moves = 0

Next == ScriptNext \/ HarnessNext

Spec == Init /\ [][Next]_vars

\* The process keeps running: main is one thread, and every call it makes
\* returns.
LiveSpec == Spec /\ WF_vars(Next)

\* The examples that run without input, taken alone.
ScriptInit == Init /\ run.prog # Harness
ScriptSpec == ScriptInit /\ [][ScriptNext]_vars /\ WF_vars(ScriptNext)

\* ----------------------------------------------------------- properties

\* The banks HarnessState::new loads.
HarnessBankNames == Range(HBankFiles)

\* Every bank was unloaded exactly once and none is loaded.
BanksBalanced == \A b \in AllBanks : b.unloads = 1 /\ ~b.loaded

\* C1: interactive harness, no engine call failing: an instance whose handle
\* goes away was released exactly once, an instance still in active_instances
\* was not released yet, and when main returns Ok no instance is left and each
\* of the five banks loaded at startup was unloaded exactly once.
C1_HarnessReleasesEverything ==
    run.prog = Harness =>
        /\ exit # "Err" => \A i \in dropped : i.releases = 1
        /\ \A i \in Range(active_instances) : i.releases = 0
        /\ exit = "Ok" =>
            /\ {b.name : b \in AllBanks} = HarnessBankNames
            /\ Cardinality(AllBanks) = Cardinality(HarnessBankNames)
            /\ BanksBalanced

\* Esc was pressed while instances were playing: cleanup has stopped and
\* released them all and is about to unload the banks.
C1_Witness ==
    /\ InHarness("cleanup_unload")
    /\ Cardinality(dropped) >= 2
    /\ \A i \in dropped : i.releases = 1 /\ i.stops = 1

ScriptedDemos == {HarnessDemo, EventsTest, ParametersTest}

\* C2: harness_demo (every demo name), studio_events_test and
\* studio_parameters_test: an instance whose handle is rebound was released
\* exactly once, and when main returns Ok every bank was unloaded exactly once
\* and every instance was released exactly once.
C2_ScriptsReleaseEverything ==
    run.prog \in ScriptedDemos =>
        /\ exit # "Err" => \A i \in dropped : i.releases = 1
        /\ exit = "Ok" =>
            /\ BanksBalanced
            /\ {"Master.bank", "Master.strings.bank", "SFX.bank", "Vehicles.bank"}
                   \subseteq {b.name : b \in AllBanks}
            /\ \A i \in AllInsts : i.releases = 1

\* studio_events_test has returned Ok after playing the music event.
C2_Witness ==
    /\ run.prog = EventsTest
    /\ exit = "Ok"
    /\ "music_inst" \in DOMAIN insts
    /\ Cardinality(DOMAIN insts) = 6
    /\ Cardinality(AllBanks) = 5

\* The start and stop calls in a call sequence.
StartStops(calls) ==
    Cardinality({j \in 1..Len(calls) : calls[j].call \in {"start", "stop"}})

\* C3: whatever key is pressed, in whatever state, and whichever call fails,
\* the handler issues for each slot at most one start or one stop: a numeric
\* key (its calls all go to its own slot) never both stops and starts, and
\* Space stops each slot at most once and starts none.
C3_OneStartOrStopPerKey ==
    InHarness("poll") =>
        /\ \A k \in 1..6 : \A f \in NumKeyFailures(k) :
               StartStops(NumKey(k, f).calls) <= 1
        /\ \A r \in StopAllRuns :
               LET calls == stop_all_events(r[1], r[2], r[3]).calls
               IN  \A s \in Slots :
                       /\ StartStops(calls[s]) <= 1
                       /\ "start" \notin CallsOf(calls[s])

\* A numeric key has just started an event while another one was playing.
C3_Witness ==
    /\ InHarness("update")
    /\ \E u \in descUses : u.call = "create_instance"
    /\ Cardinality(DOMAIN active_instances) >= 2

\* The slots a numeric key can reach: key k names slot k - 1.
SlotOf(k) == k - 1
HasSlot(k) == SlotOf(k) < Len(event_descriptions)
PathOf(k) == event_descriptions[k]

\* The events the harness plays as one-shots.
OneShotEvents == {EvFootsteps, EvExplosion}

\* C4 as stated: a press of a numeric key whose slot exists flips the slot
\* between playing and not playing, whatever event the slot holds.
C4_EveryKeyToggles ==
    InHarness("poll") =>
        \A k \in 1..6 : HasSlot(k) =>
            LET res == NumKey(k, {})
            IN  /\ res.ok
                /\ SlotOf(k) \in DOMAIN res.active <=> SlotOf(k) \notin DOMAIN active_instances

\* C4, amended: a numeric key whose slot holds a looping event toggles it (a
\* press on a silent slot starts one instance and tracks it, the next press
\* stops and releases that instance); a slot that holds Footsteps or Explosion
\* is never playing, and a press creates, starts and releases a fresh
\* instance without tracking it, so that two presses start two instances and
\* stop none.  No other slot changes.
C4_LoopingKeysToggle ==
    InHarness("poll") =>
        \A k \in 1..6 : HasSlot(k) =>
            LET s == SlotOf(k)
                res == NumKey(k, {})
                others == DOMAIN active_instances \ {s}
            IN  /\ res.ok
                /\ \A o \in others : o \in DOMAIN res.active /\ res.active[o] = active_instances[o]
                /\ DOMAIN res.active \subseteq others \cup {s}
                /\ IF PathOf(k) \in OneShotEvents
                   THEN /\ s \notin DOMAIN active_instances
                        /\ s \notin DOMAIN res.active
                        /\ Cardinality(res.gone) = 1
                        /\ \A i \in res.gone :
                               /\ i.path = PathOf(k)
                               /\ i.starts = 1 /\ i.stops = 0 /\ i.releases = 1
                        /\ StartStops(res.calls) = 1
                        /\ "stop" \notin CallsOf(res.calls)
                   ELSE IF s \in DOMAIN active_instances
                   THEN /\ s \notin DOMAIN res.active
                        /\ Cardinality(res.gone) = 1
                        /\ \A i \in res.gone :
                               /\ i.path = PathOf(k)
                               /\ i.starts = 1 /\ i.stops = 1 /\ i.releases = 1
                        /\ CallsOf(res.calls) = {"stop", "release"}
                   ELSE /\ s \in DOMAIN res.active
                        /\ res.active[s].path = PathOf(k)
                        /\ res.active[s].starts = 1
                        /\ res.active[s].stops = 0
                        /\ res.active[s].releases = 0
                        /\ res.gone = {}
                        /\ "start" \in CallsOf(res.calls)
                        /\ "stop" \notin CallsOf(res.calls)

\* A one-shot key has just been handled while a looping slot was playing:
\* its instance is released already, and the looping one is still tracked.
C4_Witness ==
    /\ InHarness("update")
    /\ active_instances # <<>>
    /\ \E i \in dropped : i.path \in OneShotEvents /\ i.releases = 1 /\ i.stops = 0

\* The calls the specification calls secondary.
SecondaryCalls == {"set_parameter_by_name", "set_3d_attributes"}

\* C5: whichever secondary calls fail during the handling of a key, the
\* handler returns Ok, the event is started as it would have been, and the
\* playing slots are those of the run without the failure.
C5_SecondaryFailuresIgnored ==
    InHarness("poll") =>
        \A f \in SUBSET SecondaryCalls :
            /\ \A k \in 1..6 :
                   LET res == NumKey(k, f)
                       good == NumKey(k, {})
                   IN  /\ res.ok
                       /\ DOMAIN res.active = DOMAIN good.active
                       /\ "start" \in CallsOf(good.calls) => "start" \in CallsOf(res.calls)
            /\ \A d \in MoveKeys : \A shift \in BOOLEAN :
                   LET res == move_source(source_pos, d[1] * Step(shift),
                                          d[2] * Step(shift), d[3] * Step(shift), f)
                   IN  res.ok /\ DOMAIN res.active = DOMAIN active_instances
            /\ \A delta \in ParamKeys :
                   LET res == adjust_parameter(delta, f)
                   IN  res.ok /\ DOMAIN res.active = DOMAIN active_instances

\* C6 as stated: once a bank load, an instance creation or a start has
\* failed, the program has returned Err.
C6_PrimaryFailureAborts == failedPrimary # {} => exit = "Err"

\* The bank loads studio_banks_test answers itself (the content banks of
\* Test 2, the reload of Test 3, the missing bank of Test 5).
ToleratedLoads == {"SFX.bank", "Music.bank", "Vehicles.bank", "VO.bank", "nonexistent.bank"}

\* C6, amended: a failed bank load, instance creation or start has made the
\* program return Err (after which it makes no call), except for the loads
\* of studio_banks_test that the example handles itself, after which it goes on.
C6_PrimaryFailureAbortsUnlessHandled ==
    \A x \in failedPrimary :
        \/ exit = "Err"
        \/ /\ run.prog = BanksTest
           /\ x.call = "load_bank_file"
           /\ x.arg \in ToleratedLoads

\* studio_banks_test went on after SFX.bank failed to load in Test 2 and
\* returned Err when the load of VO.bank from memory failed.
C6_Witness ==
    /\ run.prog = BanksTest
    /\ exit = "Err"
    /\ Failed("load_bank_file", "SFX.bank") \in failedPrimary
    /\ Failed("load_bank_memory", "VO.bank") \in failedPrimary

\* C7: whenever main has returned after enable_raw_mode succeeded, the
\* terminal is out of raw mode.
C7_TerminalRestored == (exit # "running" /\ rawEnabled) => ~rawMode

\* C8: once studio.release() has succeeded, no bank is loaded.
C8_BanksUnloadedBeforeRelease == studio = "released" => \A b \in AllBanks : ~b.loaded

\* C9 as stated: an instance that was released had been stopped before.
C9_ReleaseAfterStop == \A i \in AllInsts : i.releases > 0 => i.stoppedAtRel

\* The events a program releases right after start, without a stop.
FireAndForget(prog) ==
    IF prog = Harness THEN OneShotEvents ELSE OneShotEvents \cup {EvCancel}

\* C9, amended: an instance that was released had been started before, and
\* had been stopped before unless it is one of the fire-and-forget one-shots
\* (Explosion and Footsteps; UI Cancel in the scripted examples), which are
\* released while playing.
C9_ReleaseAfterStartAndStop ==
    \A i \in AllInsts : i.releases > 0 =>
        /\ i.startedAtRel
        /\ i.stoppedAtRel <=> i.path \notin FireAndForget(run.prog)

\* studio_events_test holds an explosion released while playing and the
\* ambience released after its stop.
C9_Witness ==
    /\ run.prog = EventsTest
    /\ {"explosion", "ambience"} \subseteq DOMAIN insts
    /\ insts["explosion"].releases = 1 /\ ~insts["explosion"].stoppedAtRel
    /\ insts["ambience"].releases = 1 /\ insts["ambience"].stoppedAtRel

\* C10: every get_event, create_instance and get_path is made while the bank
\* that owns the event is loaded.
C10_DescriptionsWhileLoaded == \A u \in descUses : u.ownerLoaded

\* The harness has just created an instance of the vehicle event.
C10_Witness ==
    /\ InHarness("update")
    /\ \E u \in descUses : u.call = "create_instance" /\ u.path = EvMower /\ u.ownerLoaded

\* C11: in every state of the harness, whatever moves came before, the R key
\* leaves source_pos at the literal (0, 0, -5), which is the position
\* HarnessState::new starts with, and pushes exactly that vector to every
\* active instance and nothing to any other slot; before the first move the
\* source is at that position.
C11_ResetRestoresDefault ==
    /\ (run.prog = Harness /\ moves = 0) => source_pos = <<0, 0, -50>>
    /\ InHarness("poll") =>
        \A f \in PushFailures("set_3d_attributes") :
            LET res == move_source(ResetSource, 0, 0, 0, f)
            IN  /\ res.ok
                /\ MovedTo(ResetSource, 0, 0, 0) = <<0, 0, -50>>
                /\ MovedTo(ResetSource, 0, 0, 0) = DefaultSource
                /\ \A s \in Slots :
                       res.calls[s] = IF s \in DOMAIN active_instances
                                      THEN <<Call("set_3d_attributes", "", <<0, 0, -50>>)>>
                                      ELSE <<>>

\* R has been handled after a move, with an instance playing: the source is
\* back at the default.
C11_Witness ==
    /\ InHarness("update")
    /\ moves >= 1
    /\ source_pos = DefaultSource
    /\ active_instances # <<>>

\* The instance handle each demo of harness_demo creates.
DemoHandle(demo) ==
    CASE demo = "explosion" -> "explosion"
      [] demo = "spatial" -> "vehicle"
      [] demo = "parameters" -> "vehicle2"
      [] demo = "footsteps" -> "footstep"

\* The demos each argument selects, in the order they run.
DemosFor(arg) ==
    CASE arg \in {NoArg, "all"} -> <<"explosion", "spatial", "parameters", "footsteps">>
      [] arg \in {"explosion", "spatial", "footsteps"} -> <<arg>>
      [] arg \in {"parameters", "rpm"} -> <<"parameters">>
      [] OTHER -> <<>>

\* The handles of the first n demos of a selection.
DemoHandles(demos, n) == {DemoHandle(demos[j]) : j \in 1..n}

\* C12: harness_demo runs the demos its argument names and no other, in the
\* order explosion, spatial, parameters, footsteps: the instances created so
\* far are always those of the first few selected demos, and when main
\* returns Ok they are those of all selected demos and the four banks were
\* loaded and unloaded.  No argument selects what "all" selects, "rpm" what
\* "parameters" selects, and any other name selects nothing.
C12_DemoSelection ==
    run.prog = HarnessDemo =>
        LET demos == DemosFor(run.demo)
        IN  /\ \E n \in 0..Len(demos) : DOMAIN insts = DemoHandles(demos, n)
            /\ pc = 1 =>
                /\ HarnessDemoMain(NoArg) = HarnessDemoMain("all")
                /\ HarnessDemoMain("rpm") = HarnessDemoMain("parameters")
            /\ exit = "Ok" =>
                /\ DOMAIN insts = DemoHandles(demos, Len(demos))
                /\ {b.name : b \in AllBanks}
                       = {"Master.bank", "Master.strings.bank", "SFX.bank", "Vehicles.bank"}
                /\ BanksBalanced

\* harness_demo run without an argument has returned Ok after all four demos.
C12_Witness ==
    /\ run.prog = HarnessDemo
    /\ run.demo = NoArg
    /\ exit = "Ok"
    /\ DOMAIN insts = {"explosion", "vehicle", "vehicle2", "footstep"}

\* C13: a step that handles a key without an arm of its own, or a poll that
\* brings no key event, issues no engine call, drops no instance, and leaves
\* active_instances, source_pos, listener_pos, show_help and the engine's
\* objects as they are; the loop goes on with the next iteration.
C13_OtherKeysIgnored ==
    [][(HKeyOther \/ (HPollNoKey /\ exit' = "running")) =>
           /\ HKeyOther => \A s \in Slots : OtherKey.calls[s] = <<>>
           /\ UNCHANGED <<active_instances, source_pos, listener_pos, show_help>>
           /\ UNCHANGED <<studio, banks, goneBanks, insts, sounds, failedPrimary, exit>>
           /\ dropped' = {}
           /\ descUses' = {}
           /\ hpc' = "update"]_vars

\* A key was handled that changed nothing, while there was something to
\* change: an instance is playing, the help is shown, the source has moved.
C13_Witness ==
    /\ InHarness("update")
    /\ dropped = {} /\ descUses = {}
    /\ Cardinality(DOMAIN active_instances) >= 2
    /\ show_help
    /\ source_pos # DefaultSource

\* Values of FMOD_SDK_DIR and bank names to try the path functions on.
SdkDirs == {SdkDir, "C:/FMOD Studio API", ""}
BankNames == {"Master.bank", "VO.bank"}
NotSetMessage ==
    "FMOD_SDK_DIR environment variable not set. Please set it to your FMOD SDK path."

\* C14: with FMOD_SDK_DIR not set, each of the three path functions returns
\* Err with the message that names the variable, and a Studio example never
\* gets past its call of get_example_banks_dir: it loads no bank, attempts no
\* load and does not return Ok.  With the variable set to d,
\* get_example_bank_path(b) is Ok(d + "/api/studio/examples/media/" + b).
C14_SdkDirRequired ==
    /\ studio = "none" =>
        /\ get_fmod_sdk_dir(EnvUnset) = RustErr(NotSetMessage)
        /\ get_example_banks_dir(EnvUnset) = RustErr(NotSetMessage)
        /\ \A b \in BankNames :
               /\ get_example_bank_path(EnvUnset, b) = RustErr(NotSetMessage)
               /\ \A d \in SdkDirs :
                      get_example_bank_path(EnvSet(d), b)
                          = RustOk(d \o "/api/studio/examples/media/" \o b)
    /\ ~run.env.set =>
        /\ AllBanks = {}
        /\ failedPrimary = {}
        /\ exit # "Ok"
        /\ IF Scripted
           THEN \A j \in 1..(pc - 1) : Script[j].kind # "banks_dir"
           ELSE hpc \in {"enable_raw_mode", "create", "initialize", "banks_dir"}

\* With the variable not set, an example has created and initialized the
\* studio system and returned Err from its call of get_example_banks_dir.
C14_Witness ==
    /\ ~run.env.set
    /\ exit = "Err"
    /\ studio = "initialized"
    /\ IF Scripted THEN Script[pc].kind = "banks_dir" ELSE hpc = "banks_dir"

\* A key event is dispatched to an arm of the match.
KeyDispatch ==
    \/ HKeyNum \/ HKeySpace \/ HKeyMove \/ HKeyReset \/ HKeyParam \/ HKeyHelp
    \/ HKeyOther \/ HKeyEsc

\* C15: an iteration of the main loop is one studio.update(), then one
\* draw_ui, then one poll that dispatches at most one key.  A key is
\* dispatched only at the poll, the poll is reached only from draw_ui and
\* draw_ui only from the update, and after a dispatch the program is at the
\* next update or has left the loop: so an update comes before the dispatch
\* of its iteration and between any two dispatches.
C15_LoopOrder ==
    [][/\ hpc # "poll" => ~KeyDispatch
       /\ (hpc = "update" /\ exit' = "running") => hpc' = "draw_ui"
       /\ (hpc = "draw_ui" /\ exit' = "running") => hpc' = "poll"
       /\ (hpc = "poll" /\ exit' = "running") => hpc' \in {"update", "cleanup_stop"}
       /\ (hpc' = "poll" /\ exit' = "running") => hpc = "draw_ui"
       /\ (hpc' = "draw_ui" /\ exit' = "running") => hpc = "update"
      ]_vars

\* The loop has gone round at least three times, each time with a key
\* dispatched (help, a number, a movement), and is at its poll again.
C15_Witness ==
    /\ InHarness("poll")
    /\ show_help
    /\ active_instances # <<>>
    /\ moves >= 1

\* main returned without an error: Ok(()), or () in quick_test.
EndedOk == exit = "Ok"

\* release() of the system object has been called: it succeeded, or it was
\* the last call before main ended and its error was handled.
SystemReleaseCalled ==
    \/ studio = "released"
    \/ Scripted /\ pc > 1 /\ Script[pc - 1].kind = "studio_release"

\* C16: when a program ends by an early return or past a handled match arm
\* (every end that is not a `?`), each engine resource it acquired has been
\* explicitly released: the system object if it was created, every bank
\* loaded, every event instance and every sound created.
C16_HandledExitsReleaseEverything ==
    EndedOk =>
        /\ studio # "none" => SystemReleaseCalled
        /\ \A b \in AllBanks : b.unloads > 0
        /\ \A i \in AllInsts : i.releases > 0
        /\ \A h \in DOMAIN sounds : sounds[h].releases > 0

\* The positions of main inside `loop { .. }` and after it.
LoopPositions == {"update", "draw_ui", "poll"}
CleanupPositions == {"cleanup_stop", "cleanup_unload", "cleanup_release", "disable_raw_mode"}

\* C17: the main loop is left only by the dispatch of Esc or by main
\* returning Err; every other key, and a poll without a key, leaves the
\* program in the loop.  After Esc no key is dispatched and the loop is not
\* entered again, and the program terminates: with Ok only when the last
\* cleanup call has succeeded.
C17_OnlyEscLeavesLoop ==
    /\ [][/\ (hpc \in LoopPositions /\ hpc' \notin LoopPositions) => HKeyEsc
          /\ (hpc \in LoopPositions /\ exit' # "running") => exit' = "Err"
          /\ hpc \in CleanupPositions =>
                /\ ~KeyDispatch
                /\ hpc' \in CleanupPositions \cup {"returned"}
                /\ exit' = "Ok" <=> hpc' = "returned"
         ]_vars
    /\ InHarness("cleanup_stop") ~> (exit # "running")

\* Esc was dispatched, every cleanup call succeeded and main has returned Ok.
C17_Witness ==
    /\ run.prog = Harness
    /\ hpc = "returned"
    /\ exit = "Ok"
    /\ studio = "released"
    /\ ~rawMode

\* The position a movement key is to lead to from pos, in tenths: the step
\* is 1.0, or 0.1 with Shift.
MoveTarget(pos, key, shift) ==
    LET step == IF shift THEN 1 ELSE 10
    IN  CASE key = "w" -> <<pos[1], pos[2], pos[3] - step>>
          [] key = "s" -> <<pos[1], pos[2], pos[3] + step>>
          [] key = "a" -> <<pos[1] - step, pos[2], pos[3]>>
          [] key = "d" -> <<pos[1] + step, pos[2], pos[3]>>
          [] key = "q" -> <<pos[1], pos[2] + step, pos[3]>>
          [] key = "e" -> <<pos[1], pos[2] - step, pos[3]>>

\* C18: a movement key changes one coordinate of source_pos by the step: W
\* and S move z by -step and +step, A and D move x by -step and +step, Q and
\* E move y by +step and -step.  listener_pos, show_help and the set of
\* active instances stay as they are, and the new position is pushed, by one
\* set_3d_attributes call, to every active instance and to no other.
C18_MovementKeys ==
    [][moves' = moves + 1 =>
          /\ hpc = "poll" /\ hpc' = "update" /\ exit' = "running"
          /\ \E key \in DOMAIN Direction, shift \in BOOLEAN :
                source_pos' = MoveTarget(source_pos, key, shift)
          /\ UNCHANGED <<listener_pos, show_help, event_descriptions>>
          /\ DOMAIN active_instances' = DOMAIN active_instances
          /\ dropped' = {}
          /\ UNCHANGED <<studio, banks, goneBanks, insts, sounds, failedPrimary>>
          /\ \A key \in DOMAIN Direction, shift \in BOOLEAN,
                f \in PushFailures("set_3d_attributes") :
                LET d == Direction[key]
                    dx == d[1] * Step(shift)
                    dy == d[2] * Step(shift)
                    dz == d[3] * Step(shift)
                    res == move_source(source_pos, dx, dy, dz, f)
                    target == MoveTarget(source_pos, key, shift)
                IN  /\ res.ok
                    /\ MovedTo(source_pos, dx, dy, dz) = target
                    /\ DOMAIN res.active = DOMAIN active_instances
                    /\ \A s \in Slots :
                          res.calls[s] = IF s \in DOMAIN active_instances
                                         THEN <<Call("set_3d_attributes", "", target)>>
                                         ELSE <<>>
      ]_vars

\* A movement key has been handled with two instances active and the help
\* shown: the source is off its default position.
C18_Witness ==
    /\ InHarness("update")
    /\ moves = 1
    /\ source_pos # DefaultSource
    /\ Cardinality(DOMAIN active_instances) = 2
    /\ show_help

\* Space is handled and every call of stop_all_events succeeds.
SpaceNoFailure ==
    /\ InHarness("poll")
    /\ Handled(stop_all_events(DOMAIN active_instances, -1, {}), source_pos, moves)

\* C19: when Space is handled and no engine call fails, active_instances
\* is empty afterwards, every instance that was active has got exactly one
\* stop and then one release, and source_pos and show_help are as before.
\* With nothing active Space makes no engine call (and so cannot fail).
C19_SpaceStopsAll ==
    [][SpaceNoFailure =>
          LET a == active_instances
              res == stop_all_events(DOMAIN a, -1, {})
          IN  /\ res.ok
              /\ res.active = <<>>
              /\ \A s \in Slots :
                    res.calls[s] = IF s \in DOMAIN a
                                   THEN <<Call("stop", "", <<>>), Call("release", "", <<>>)>>
                                   ELSE <<>>
              /\ exit' = "running"
              /\ active_instances' = <<>>
              /\ dropped' = res.gone
              /\ Cardinality(dropped') = Cardinality(DOMAIN a)
              /\ \A i \in dropped' :
                    /\ i.stops = 1 /\ i.releases = 1 /\ i.stoppedAtRel /\ i.late = 0
                    /\ \E s \in DOMAIN a : i.path = a[s].path
              /\ UNCHANGED <<source_pos, show_help, listener_pos, event_descriptions>>
              /\ hpc' = "update"
              /\ a = <<>> => StopAllRuns = {<<{}, -1, {}>>}
      ]_vars

\* Space has just been handled with three instances playing, the help shown
\* and the source moved: the three are stopped and released.
C19_Witness ==
    /\ InHarness("update")
    /\ active_instances = <<>>
    /\ Cardinality(dropped) = 3
    /\ \A i \in dropped : i.stops = 1 /\ i.releases = 1
    /\ show_help
    /\ source_pos # DefaultSource

\* Some bank is unloaded by the step.
SomeUnload ==
    \E h \in DOMAIN banks : h \in DOMAIN banks' /\ banks'[h].unloads > banks[h].unloads

\* C20: after Esc the harness first stops and releases every tracked
\* instance, then unloads the banks, then releases the studio system, then
\* leaves raw mode.  When stop_all_events has returned, every instance that
\* was tracked has one stop and one release and no bank is unloaded yet; a
\* bank is unloaded only with no instance tracked and the system not
\* released; the system is released only with all five banks unloaded; raw
\* mode is left only with the system released.
C20_ExitOrder ==
    [][run.prog = Harness =>
          /\ (hpc = "cleanup_stop" /\ hpc' # hpc) =>
                /\ hpc' = "cleanup_unload"
                /\ active_instances' = <<>>
                /\ Cardinality(dropped') = Cardinality(DOMAIN active_instances)
                /\ \A i \in dropped' : i.stops = 1 /\ i.releases = 1 /\ i.stoppedAtRel
                /\ \A h \in DOMAIN banks' : banks'[h].loaded /\ banks'[h].unloads = 0
          /\ SomeUnload =>
                /\ hpc = "cleanup_unload"
                /\ active_instances = <<>>
                /\ studio = "initialized" /\ studio' = studio
          /\ (studio' = "released" /\ studio # "released") =>
                /\ hpc = "cleanup_release"
                /\ \A k \in 1..Len(HBankHandles) :
                      /\ HBankHandles[k] \in DOMAIN banks
                      /\ ~banks[HBankHandles[k]].loaded
                      /\ banks[HBankHandles[k]].unloads = 1
                /\ rawMode /\ rawMode'
          /\ (rawMode /\ ~rawMode') =>
                /\ hpc = "disable_raw_mode"
                /\ studio = "released"
      ]_vars

\* The cleanup has come to its last call: the five banks are unloaded, the
\* studio system is released and the terminal is still in raw mode.
C20_Witness ==
    /\ InHarness("disable_raw_mode")
    /\ studio = "released"
    /\ rawMode
    /\ \A h \in DOMAIN banks : ~banks[h].loaded
    /\ Cardinality(DOMAIN banks) = 5

\* C21: with n events resolved at startup (any n in 0..6; the list holds
\* them in slots 0..n-1), a number key k > n makes no engine call, creates
\* and drops no instance, uses no description and leaves active_instances
\* as it is, so the harness goes on to the next iteration with its state
\* unchanged.  For n = 0 this includes key '1'.
C21_KeysBeyondTheList ==
    /\ run.prog = Harness =>
          /\ Len(event_descriptions) \in 0..6
          /\ \A s \in DOMAIN active_instances : s < Len(event_descriptions)
    /\ InHarness("poll") =>
          \A k \in 1..6 :
              k > Len(event_descriptions) =>
                  \A f \in {{}} \cup {{c} : c \in {"create_instance", "set_parameter_by_name",
                                                  "start", "stop", "release"}} :
                      LET res == NumKey(k, f)
                      IN  /\ res.ok
                          /\ res.calls = <<>>
                          /\ res.active = active_instances
                          /\ res.gone = {}
                          /\ res.uses = {}
                          /\ res.failed = {}

\* The loop is at its poll with no event resolved at startup (key '1' is
\* beyond the list) and has handled a key before.
C21_Witness ==
    /\ InHarness("poll")
    /\ Len(event_descriptions) = 0
    /\ show_help

\* The same with three events resolved and one of them playing: keys 4, 5
\* and 6 are beyond the list.
C21_WitnessThree ==
    /\ InHarness("poll")
    /\ Len(event_descriptions) = 3
    /\ active_instances # <<>>

\* C22: every key of active_instances is an index into event_descriptions
\* and the instance under it was created from the description at that
\* index; no key is the index of a one-shot event (Footsteps, Explosion);
\* so the active count draw_ui shows is at most the total it shows.
C22_ActiveKeysValid ==
    run.prog = Harness =>
        /\ \A s \in DOMAIN active_instances :
              /\ s \in 0..(Len(event_descriptions) - 1)
              /\ active_instances[s].path = event_descriptions[s + 1]
              /\ event_descriptions[s + 1] \notin OneShotEvents
        /\ Cardinality(DOMAIN active_instances) <= Len(event_descriptions)

\* Both one-shot events were resolved and played, and every looping event
\* that was resolved is playing: four of the six slots are active.
C22_Witness ==
    /\ InHarness("update")
    /\ Len(event_descriptions) = 6
    /\ Cardinality(DOMAIN active_instances) = 4

\* C23: while the harness runs without a failed `?`, the instances created
\* and not released are exactly the values of active_instances: every
\* instance in the map is started and unreleased, and every instance whose
\* handle a step dropped has been released once.  A number key never
\* reaches play_event for a slot that holds an instance, so no call creates
\* an instance for an occupied slot and none is replaced in the map.
C23_NoLeakNoOverwrite ==
    /\ (run.prog = Harness /\ exit = "running") =>
          /\ \A s \in DOMAIN active_instances :
                /\ active_instances[s].releases = 0
                /\ active_instances[s].starts = 1
          /\ \A i \in dropped : i.releases = 1
    /\ InHarness("poll") =>
          \A k \in 1..6 :
              LET res == NumKey(k, {})
              IN  /\ res.ok
                  /\ \A i \in res.gone : i.releases = 1
                  /\ (k - 1) \in DOMAIN active_instances =>
                        /\ "create_instance" \notin CallsOf(res.calls)
                        /\ res.active = MapRemove(active_instances, k - 1)
                  /\ \A s \in DOMAIN active_instances \ {k - 1} :
                        /\ s \in DOMAIN res.active
                        /\ res.active[s] = active_instances[s]

\* A key has just stopped a playing instance or played a one-shot (its
\* handle is dropped, released) while two other instances stay in the map.
C23_Witness ==
    /\ InHarness("update")
    /\ dropped # {}
    /\ Cardinality(DOMAIN active_instances) = 2

\* The position of the first release in a call sequence, 0 when it has none.
FirstRelease(calls) ==
    IF \E j \in 1..Len(calls) : calls[j].call = "release"
    THEN CHOOSE j \in 1..Len(calls) :
             /\ calls[j].call = "release"
             /\ \A m \in 1..(j - 1) : calls[m].call # "release"
    ELSE 0

\* C24: in every program, no call is made on an event instance after
\* release() has been called on it, and no method is called on a bank after
\* its unload(): no instance or bank record counts a late call, and in the
\* calls a harness handler makes on one instance a release is the last.
C24_NoUseAfterRelease ==
    /\ \A i \in AllInsts : i.late = 0 /\ i.releases <= 1
    /\ \A b \in AllBanks : b.late = 0 /\ b.unloads <= 1
    /\ InHarness("poll") =>
          /\ \A k \in 1..6 : \A f \in NumKeyFailures(k) :
                LET calls == NumKey(k, f).calls
                IN  FirstRelease(calls) \in {0, Len(calls)}
          /\ \A s \in Slots :
                LET calls == stop_all_events(DOMAIN active_instances, -1, {}).calls[s]
                IN  FirstRelease(calls) \in {0, Len(calls)}

\* A scripted example has ended with Ok after releasing an instance and
\* unloading its banks.
C24_Witness ==
    /\ Scripted
    /\ exit = "Ok"
    /\ \E h \in DOMAIN insts : insts[h].releases = 1 /\ insts[h].stops = 1
    /\ \E h \in DOMAIN banks : banks[h].unloads = 1

\* A parameter key is handled: '+' or '=' (delta 0.1), '-' or '_' (delta -0.1).
ParamKeyHandled ==
    /\ InHarness("poll")
    /\ \E delta \in ParamKeys : Handled(adjust_parameter(delta, {}), source_pos, moves)

\* The two calls a parameter key makes on an active instance, values in tenths.
ParamCalls(rpm, surface) ==
    <<Call("set_parameter_by_name", "RPM", <<rpm>>),
      Call("set_parameter_by_name", "Surface", <<surface>>)>>

\* C25: '+' / '=' sets RPM to 2100 and Surface to 0.1 on every active
\* instance, '-' / '_' sets RPM to 1900 and Surface to -0.1, whether or not
\* the calls succeed; an inactive slot gets no call.  The press changes no
\* field of the harness, and the calls of either key are the same after the
\* press as before it: a second press sets the same values as the first.
C25_ParameterKeysNotCumulative ==
    [][ParamKeyHandled =>
          /\ \A delta \in ParamKeys : \A f \in PushFailures("set_parameter_by_name") :
                LET res == adjust_parameter(delta, f)
                IN  /\ res.ok
                    /\ res.active = active_instances
                    /\ res.gone = {}
                    /\ \A s \in Slots :
                          res.calls[s] =
                              IF s \notin DOMAIN active_instances THEN <<>>
                              ELSE IF delta = 1 THEN ParamCalls(21000, 1)
                              ELSE ParamCalls(19000, -1)
                    /\ adjust_parameter(delta, f)' = res
          /\ UNCHANGED <<active_instances, source_pos, listener_pos, show_help,
                         event_descriptions, moves>>
          /\ UNCHANGED <<studio, banks, goneBanks, insts, sounds, failedPrimary, exit>>
          /\ dropped' = {}
      ]_vars

\* A parameter key can have been handled with two instances playing: the
\* loop is back at its update with nothing dropped.
C25_Witness ==
    /\ InHarness("update")
    /\ Cardinality(DOMAIN active_instances) = 2
    /\ dropped = {}
    /\ descUses = {}
    /\ moves = 0

\* play_sound: the index of the create_sound call in the script of a run
\* with a file argument; its Err arm is the two operations after it.
AtCreateSound == CHOOSE j \in 1..Len(Script) : Script[j].kind = "create_sound"

\* play_sound was given a file and create_sound has returned Err.
CreateSoundFailed ==
    /\ run.prog = PlaySound /\ run.demo # NoArg
    /\ pc \in {AtCreateSound + 1, AtCreateSound + 2}

\* play_sound has passed the creation of the sound.
SoundCreated ==
    /\ run.prog = PlaySound /\ run.demo # NoArg
    /\ pc > AtCreateSound + 2

\* play_sound ends before it creates a system: no argument, or no such file.
NoSystemYet ==
    /\ run.prog = PlaySound
    /\ run.demo = NoArg \/ pc <= 2

\* C26 as stated: without a file argument, or with a path that does not
\* exist, play_sound returns Ok and never creates a system; when
\* create_sound fails the system is released and the program returns Ok
\* without playing; on the normal path the sound is released before the
\* system.
C26_PlaySoundExits ==
    /\ NoSystemYet => studio = "none" /\ sounds = <<>> /\ exit # "Err"
    /\ (CreateSoundFailed /\ exit # "running") =>
          exit = "Ok" /\ studio = "released" /\ sounds = <<>>
    /\ (SoundCreated /\ studio = "released") => sounds["sound"].releases = 1

\* C26, amended: when create_sound fails, play_sound calls release() on the
\* system and plays nothing; it returns Ok when that release succeeds and
\* Err, with the system unreleased, when it fails.  The other two parts are
\* as stated.
C26_PlaySoundExitsIfReleaseSucceeds ==
    /\ NoSystemYet => studio = "none" /\ sounds = <<>> /\ exit # "Err"
    /\ CreateSoundFailed =>
          /\ sounds = <<>>
          /\ exit = "Ok" => studio = "released" /\ pc = AtCreateSound + 2
          /\ exit = "Err" => studio = "initialized" /\ pc = AtCreateSound + 1
          /\ pc = AtCreateSound + 2 => studio = "released"
    /\ (SoundCreated /\ studio = "released") => sounds["sound"].releases = 1

\* create_sound has failed, the system is released and play_sound has
\* returned Ok from the Err arm.
C26_Witness ==
    /\ CreateSoundFailed
    /\ exit = "Ok"
    /\ studio = "released"

\* The calls of the playback loop of play_sound, by the name of the call.
PlaybackOps == {"update", "is_playing", "get_position", "flush", "while is_playing"}

\* play_sound is inside its playback loop and has not failed.
InPlayback ==
    /\ run.prog = PlaySound /\ run.demo # NoArg
    /\ exit = "running"
    /\ pc \in 1..Len(Script)
    /\ Script[pc].arg \in PlaybackOps

\* is_playing() has just returned Ok(true): the body goes on.
StillPlaying == InPlayback /\ Script[pc].arg = "get_position"

\* play_sound has ended on the error of the call named by `args`, or on the
\* error of a call of one of the kinds `kinds`.
PlaySoundFailedAt(args, kinds) ==
    /\ run.prog = PlaySound /\ run.demo # NoArg
    /\ exit = "Err"
    /\ Script[pc].arg \in args \/ Script[pc].kind \in kinds

\* play_sound has released the sound and the system.
CleanedUp ==
    /\ run.prog = PlaySound
    /\ studio = "released"
    /\ "sound" \in DOMAIN sounds
    /\ sounds["sound"].releases = 1

\* One step inside the playback loop: is_playing() is evaluated right after
\* one update(), and only there; when it is not Ok(true) the next call is
\* sound.release(), and main has not failed; otherwise the body goes on and
\* its end leads back to update().
PlaybackStep ==
    InPlayback =>
        /\ Script[pc].arg = "is_playing" =>
              /\ exit' = "running"
              /\ \/ pc' = pc + 1 /\ StillPlaying'
                 \/ Script[pc'].kind = "sound_release" /\ pc' = pc + 4
        /\ Script[pc].arg = "while is_playing" =>
              Script[pc'].arg = "update" /\ exit' = "running"
        /\ (pc' # pc /\ Script[pc'].arg = "is_playing") =>
              Script[pc].arg = "update" /\ pc' = pc + 1
        /\ (pc' # pc /\ Script[pc'].arg = "update") =>
              Script[pc].arg = "while is_playing"

BannerPrinted ==
    /\ run.prog = QuickTest
    /\ pc \in 2..(Len(Script) + 1)
    /\ Script[pc - 1].kind = "print"

\* C28: quick_test prints its closing "integration test PASSED" lines only
\* when every one of its six steps reported success; here, for the sixth
\* step: the lines are printed only when system.release() returned Ok.
C28_BannerOnlyAfterSuccess ==
    BannerPrinted => studio = "released"

====
